---- MODULE Spec2Model ----
(***************************************************************************)
(* The analysis cache and orchestration layer of ClubApp:                  *)
(*   AnalysisDatabase (the Store, a MongoDB collection of analysis          *)
(*   documents), AnalysisManager (the Orchestrator) and LLMAnalyzer (the   *)
(*   LLM adapter and response parser).                                      *)
(* Time is counted in whole hours.  An optional value (Python's None or a  *)
(* value) is a sequence of length 0 or 1.                                    *)
(***************************************************************************)
EXTENDS Integers, Sequences, FiniteSets, TLC

VARIABLES
    collection,   \* self.db.collection: the set of stored analysis documents
    connected,    \* whether AnalysisDatabase.__init__ got as far as self.collection
    api_key,      \* whether the provider's API key is in the environment
    client,       \* whether LLMAnalyzer.__init__ built self.client (not None)
    now,          \* datetime.now(), in hours
    next_id,      \* the next ObjectId the server hands out
    proc,         \* per request: the position and locals of an Orchestrator call
    out,          \* the outcome of the latest direct (single-step) method call
    resume_collection   \* ResumeDatabase.collection: the stored resumes' ids

vars ==
    <<collection, connected, api_key, client, now, next_id, proc, out,
      resume_collection>>

----------------------------------------------------------------------------
(* Bounds of the model *)

MaxIds == 2
MaxClubs == 2
\* datetime reaches back MaxDaysBack days before hour 0 (it reaches back to
\* year 1)
MaxDaysBack == 2
\* results already collected when the last club of a comparison is analysed
MaxRanked == 3

(* Program constants *)

cache_duration == 24
hours_per_day == 24
max_attempts == 3
top_clubs_limit == 5
week_days == 7

\* the instants (hours) at which the model looks at the clock: they make
\* ages of 1, 23, 24 and 25 hours
Instants == {0, 1, 24, 25}

NoneV == <<>>
Some(x) == <<x>>

----------------------------------------------------------------------------
(* Data *)

Resumes == {"r1", "r2"}

LaunchpadClub == ("Club Name" :> "Launchpad" @@ "Primary Focus" :> "web")
NamelessClub == ("Primary Focus" :> "robotics")
Clubs == {LaunchpadClub, NamelessClub}

AnalysisResult(ns, cr, at, ps, im, ms, ss) ==
    [networking_strategy |-> ns, campus_resources |-> cr,
     application_timeline |-> at, preparation_steps |-> ps,
     improvements |-> im, match_score |-> ms, strategy_summary |-> ss]

ResultFields ==
    {"networking_strategy", "campus_resources", "application_timeline",
     "preparation_steps", "improvements", "match_score", "strategy_summary"}

ListFields ==
    {"networking_strategy", "campus_resources", "application_timeline",
     "preparation_steps", "improvements"}

\* a key that names a nameless club by its focus
ClubNameOrFocus(club_data) ==
    IF "Club Name" \in DOMAIN club_data THEN club_data["Club Name"]
    ELSE club_data["Primary Focus"]

\* club_data.get("Club Name", "Unknown Club")
ClubName(club_data) ==
    IF "Club Name" \in DOMAIN club_data THEN club_data["Club Name"]
    ELSE "Unknown Club"

ClubNames == {ClubName(c) : c \in Clubs}

----------------------------------------------------------------------------
(* LLMAnalyzer: the response parser.  A response text is a sequence of     *)
(* tokens: FENCE_JSON (the opening fence with its json tag), FENCE (three  *)
(* backticks), WS (white space), the text of a JSON value (OBJ_A, OBJ_B,   *)
(* OBJ_PARTIAL, OBJ_BADSCORE, ARR) or a word that is no JSON.               *)

IntScore(n) == [kind |-> "int", n |-> n]
StrScore(s) == [kind |-> "str", s |-> s]

\* json.loads of the text of one JSON value
JsonValue(tok) ==
    CASE tok = "OBJ_A" ->
           [kind |-> "dict",
            d |-> [networking_strategy |-> <<"meet the leads">>,
                   campus_resources |-> <<"career center">>,
                   application_timeline |-> <<"apply in fall">>,
                   preparation_steps |-> <<"build a project">>,
                   improvements |-> <<"add metrics">>,
                   match_score |-> IntScore(70),
                   strategy_summary |-> "solid fit"]]
      [] tok = "OBJ_B" ->
           [kind |-> "dict",
            d |-> [networking_strategy |-> <<"attend demo day">>,
                   campus_resources |-> <<"maker space">>,
                   application_timeline |-> <<"apply in spring">>,
                   preparation_steps |-> <<"practice interviews">>,
                   improvements |-> <<"shorten summary">>,
                   match_score |-> StrScore("95"),
                   strategy_summary |-> "strong fit"]]
      [] tok = "OBJ_PARTIAL" ->
           [kind |-> "dict", d |-> [strategy_summary |-> "partial"]]
      [] tok = "OBJ_BADSCORE" ->
           [kind |-> "dict",
            d |-> [networking_strategy |-> <<"meet the leads">>,
                   match_score |-> StrScore("high")]]
      [] tok = "OBJ_BADLIST" ->
           \* a string where the array of strings is asked for
           [kind |-> "dict",
            d |-> [networking_strategy |-> StrScore("talk to members"),
                   match_score |-> IntScore(80)]]
      [] tok = "ARR" -> [kind |-> "list"]

JsonTokens ==
    {"OBJ_A", "OBJ_B", "OBJ_PARTIAL", "OBJ_BADSCORE", "OBJ_BADLIST", "ARR"}

DecimalStrings == ("95" :> 95)

\* int(x): [exc, val]
IntOf(v) ==
    IF v.kind = "int" THEN [exc |-> FALSE, val |-> v.n]
    ELSE IF v.s \in DOMAIN DecimalStrings
         THEN [exc |-> FALSE, val |-> DecimalStrings[v.s]]
         ELSE [exc |-> TRUE, val |-> 0]

RECURSIVE LStrip(_)
LStrip(text) ==
    IF text # <<>> /\ Head(text) = "WS" THEN LStrip(Tail(text)) ELSE text

RECURSIVE RStrip(_)
RStrip(text) ==
    IF text # <<>> /\ text[Len(text)] = "WS"
    THEN RStrip(SubSeq(text, 1, Len(text) - 1)) ELSE text

\* response.strip()
Strip(text) == RStrip(LStrip(text))

\* the fence removal of parse_llm_response
Unfence(text) ==
    LET a == IF text # <<>> /\ Head(text) = "FENCE_JSON" THEN Tail(text) ELSE text
    IN  IF a # <<>> /\ a[Len(a)] = "FENCE" THEN SubSeq(a, 1, Len(a) - 1) ELSE a

\* json.loads(response): [exc, val]; exc is json.JSONDecodeError
JsonLoads(text) ==
    LET body == Strip(text)
    IN  IF Len(body) = 1 /\ body[1] \in JsonTokens
        THEN [exc |-> FALSE, val |-> JsonValue(body[1])]
        ELSE [exc |-> TRUE, val |-> [kind |-> "none"]]

\* data.get(key, default)
DictGet(d, key, default) == IF key \in DOMAIN d THEN d[key] ELSE default

JsonFallback ==
    AnalysisResult(<<"Unable to parse strategy - please try again">>,
                   <<"Analysis parsing failed">>,
                   <<"Please retry the analysis">>,
                   <<"Try again with a different approach">>,
                   <<"Analysis parsing failed">>,
                   0,
                   "Analysis parsing failed due to JSON format issues")

UnexpectedFallback ==
    AnalysisResult(<<"Error in analysis">>, <<"Please try again">>,
                   <<"Analysis failed">>, <<"Retry recommended">>,
                   <<"Please try again">>, 0, "Error: unexpected")

\* parse_llm_response(response); response is None or Some(text)
parse_llm_response(response) ==
    IF response = NoneV THEN UnexpectedFallback      \* None.strip()
    ELSE
      LET loaded == JsonLoads(Unfence(Strip(response[1])))
      IN  IF loaded.exc THEN JsonFallback
          ELSE IF loaded.val.kind # "dict" THEN UnexpectedFallback  \* data.get
          ELSE
            LET d == loaded.val.d
                score == IntOf(DictGet(d, "match_score", IntScore(0)))
            IN  IF score.exc THEN UnexpectedFallback
                ELSE AnalysisResult(
                       DictGet(d, "networking_strategy", <<>>),
                       DictGet(d, "campus_resources", <<>>),
                       DictGet(d, "application_timeline", <<>>),
                       DictGet(d, "preparation_steps", <<>>),
                       DictGet(d, "improvements", <<>>),
                       score.val,
                       DictGet(d, "strategy_summary", ""))

Responses ==
    { Some(<<"FENCE_JSON", "WS", "OBJ_A", "WS", "FENCE">>),
      Some(<<"WS", "OBJ_B">>),
      Some(<<"OBJ_PARTIAL">>),
      Some(<<"OBJ_BADSCORE">>),
      Some(<<"OBJ_BADLIST">>),
      Some(<<"ARR">>),
      Some(<<"FENCE", "OBJ_A", "FENCE">>),
      Some(<<"word", "WS", "word">>),
      NoneV }

----------------------------------------------------------------------------
(* LLMAnalyzer: the adapter.  A provider script says how many calls fail    *)
(* before one answers, and with which text.                                  *)

ProviderScripts ==
    [fails : 0..max_attempts, response : Responses]

\* a stop condition that lets one attempt more through
stop_after_attempt_late(attempt) == attempt > max_attempts

\* stop=stop_after_attempt(3): no retry after this attempt
stop_after_attempt(attempt) == attempt >= max_attempts

\* call_llm under @retry(stop_after_attempt(3)): [exc, val, attempts]
RECURSIVE call_llm_from(_, _)
call_llm_from(script, attempt) ==
    IF attempt > script.fails
    THEN [exc |-> FALSE, val |-> script.response, attempts |-> attempt]
    ELSE IF stop_after_attempt(attempt)
         THEN [exc |-> TRUE, val |-> NoneV, attempts |-> attempt]
         ELSE call_llm_from(script, attempt + 1)

call_llm(script) == call_llm_from(script, 1)

ClientFallback ==
    AnalysisResult(<<"LLM client not available">>,
                   <<"Please configure LLM settings">>,
                   <<"Check API keys">>, <<"Verify LLM configuration">>,
                   <<"Please configure LLM settings">>, 0,
                   "LLM client initialization failed")

FailedFallback ==
    AnalysisResult(<<"Analysis failed">>, <<"Please try again">>,
                   <<"Error occurred">>, <<"Retry recommended">>,
                   <<"Please try again">>, 0, "Analysis failed: error")

\* LLMAnalyzer.analyze_resume_for_club: [result, attempts]
\* an analysis that calls call_llm a second time when the first call raised
llm_analyze_retrying(has_client, script) ==
    IF ~has_client THEN [result |-> ClientFallback, attempts |-> 0]
    ELSE
      LET response == call_llm(script)
          again == call_llm(script)
      IN  IF response.exc
          THEN [result |-> FailedFallback,
                attempts |-> response.attempts + again.attempts]
          ELSE [result |-> parse_llm_response(response.val),
                attempts |-> response.attempts]

llm_analyze_resume_for_club(has_client, script) ==
    IF ~has_client THEN [result |-> ClientFallback, attempts |-> 0]
    ELSE
      LET response == call_llm(script)
      IN  IF response.exc
          THEN [result |-> FailedFallback, attempts |-> response.attempts]
          ELSE [result |-> parse_llm_response(response.val),
                attempts |-> response.attempts]

\* a configuration check that looks at the key alone
is_configured_by_key(has_key, has_client) == has_key

\* LLMAnalyzer.is_configured
is_configured(has_key, has_client) == has_key /\ has_client

----------------------------------------------------------------------------
(* The MongoDB collection resume_analyses, as pymongo shows it.  A driver   *)
(* call raises when the store was never connected (self.collection is no   *)
(* attribute) or when the server or the network fails (err names the call). *)

Raises(err, call) == ~connected \/ err = call

\* documents matching {"resume_id": ..., "club_name": ...}
\* a filter on the resume alone
MatchingAnyClub(coll, resume_id, club_name) ==
    {doc \in coll : doc.resume_id = resume_id}

Matching(coll, resume_id, club_name) ==
    {doc \in coll : doc.resume_id = resume_id /\ doc.club_name = club_name}

\* the first document of a set in natural (insertion) order
First(docs) == CHOOSE doc \in docs : \A e \in docs : doc._id <= e._id

\* collection.find_one(filter)
\* a lookup on the resume alone
find_one_any_club(coll, resume_id, club_name) ==
    LET m == {doc \in coll : doc.resume_id = resume_id}
    IN  IF m = {} THEN NoneV ELSE Some(First(m))

find_one(coll, resume_id, club_name) ==
    LET m == Matching(coll, resume_id, club_name)
    IN  IF m = {} THEN NoneV ELSE Some(First(m))

\* a $set that leaves the list fields of the document as they were
SetFieldsKeepingLists(doc, fields) ==
    [f \in DOMAIN doc \cup DOMAIN fields |->
        IF f \in DOMAIN fields /\ ~(f \in DOMAIN doc /\ f \in ListFields)
        THEN fields[f] ELSE doc[f]]

\* {"$set": fields} on one document
SetFields(doc, fields) ==
    [f \in DOMAIN doc \cup DOMAIN fields |->
        IF f \in DOMAIN fields THEN fields[f] ELSE doc[f]]

\* the document an upsert inserts: the filter's and $set's fields and a new _id
Inserted(fields, new_id) == SetFields([_id |-> new_id], fields)

\* an insert_one in the place of the upsert
insert_one(coll, resume_id, club_name, fields, new_id) ==
    [coll |-> coll \cup {Inserted(fields, new_id)},
     upserted_id |-> Some(new_id)]

\* an upsert with $setOnInsert: a document that matches is left as it is
update_one_on_insert(coll, resume_id, club_name, fields, new_id) ==
    IF Matching(coll, resume_id, club_name) = {}
    THEN [coll |-> coll \cup {Inserted(fields, new_id)},
          upserted_id |-> Some(new_id)]
    ELSE [coll |-> coll, upserted_id |-> NoneV]

\* collection.update_one(filter, {"$set": fields}, upsert=True)
\* an update that replaces the record by a new one
update_one_replacing(coll, resume_id, club_name, fields, new_id) ==
    LET m == Matching(coll, resume_id, club_name)
    IN  IF m = {}
        THEN [coll |-> coll \cup {Inserted(fields, new_id)},
              upserted_id |-> Some(new_id)]
        ELSE [coll |-> (coll \ {First(m)}) \cup {Inserted(fields, new_id)},
              upserted_id |-> NoneV]

update_one(coll, resume_id, club_name, fields, new_id) ==
    LET m == Matching(coll, resume_id, club_name)
    IN  IF m = {}
        THEN [coll |-> coll \cup {Inserted(fields, new_id)},
              upserted_id |-> Some(new_id)]
        ELSE [coll |-> (coll \ {First(m)}) \cup {SetFields(First(m), fields)},
              upserted_id |-> NoneV]

\* collection.delete_one({"_id": id}): [coll, deleted_count]
delete_one(coll, id) ==
    LET m == {doc \in coll : doc._id = id}
    IN  IF m = {} THEN [coll |-> coll, deleted_count |-> 0]
        ELSE [coll |-> coll \ {First(m)}, deleted_count |-> 1]

\* collection.delete_many({"resume_id": resume_id})
\* a delete that stops at the first record of the resume
delete_first_resume(coll, resume_id) ==
    LET m == {doc \in coll : doc.resume_id = resume_id}
    IN  IF m = {} THEN [coll |-> coll, deleted_count |-> 0]
        ELSE [coll |-> coll \ {First(m)}, deleted_count |-> 1]

delete_many_resume(coll, resume_id) ==
    LET m == {doc \in coll : doc.resume_id = resume_id}
    IN  [coll |-> coll \ m, deleted_count |-> Cardinality(m)]

\* collection.delete_many({"analysis_timestamp": {"$lt": cutoff_date}})
delete_many_older(coll, cutoff_date) ==
    LET m == {doc \in coll : doc.analysis_timestamp < cutoff_date}
    IN  [coll |-> coll \ m, deleted_count |-> Cardinality(m)]

RECURSIVE Perms(_)
Perms(S) ==
    IF S = {} THEN {<<>>}
    ELSE UNION {{<<x>> \o q : q \in Perms(S \ {x})} : x \in S}

\* cursor.sort("analysis_timestamp", -1): every order the sort may give
\* (documents with equal timestamps come in no specified order)
\* the orders of a sort by analysis_timestamp ascending
SortedOldestFirst(docs) ==
    {q \in Perms(docs) :
        \A i \in 1..(Len(q) - 1) :
            q[i].analysis_timestamp <= q[i + 1].analysis_timestamp}

SortedByTimestamp(docs) ==
    {q \in Perms(docs) :
        \A i \in 1..(Len(q) - 1) :
            q[i].analysis_timestamp >= q[i + 1].analysis_timestamp}

Min(a, b) == IF a <= b THEN a ELSE b

\* cursor.limit(limit): 0 means no limit
Limit(q, limit) == IF limit = 0 THEN q ELSE SubSeq(q, 1, Min(limit, Len(q)))

----------------------------------------------------------------------------
(* AnalysisDatabase.  A method's outcome is [exc, ret, coll]: whether an    *)
(* exception leaves the method, what it returns, and the collection after.  *)

\* a method body without the try: the exception leaves the method
CatchNothing(o, sentinel) == o

\* try: ... except Exception: st.error(...); return sentinel
Catch(o, sentinel) ==
    IF o.exc THEN [exc |-> FALSE, ret |-> sentinel, coll |-> o.coll] ELSE o

Raised(coll) == [exc |-> TRUE, ret |-> NoneV, coll |-> coll]
Returned(ret, coll) == [exc |-> FALSE, ret |-> ret, coll |-> coll]

\* the analysis document save_analysis builds
AnalysisDoc(resume_id, club_name, t, analysis_result) ==
    [resume_id |-> resume_id,
     club_name |-> club_name,
     analysis_timestamp |-> t,
     networking_strategy |-> analysis_result.networking_strategy,
     campus_resources |-> analysis_result.campus_resources,
     application_timeline |-> analysis_result.application_timeline,
     preparation_steps |-> analysis_result.preparation_steps,
     improvements |-> analysis_result.improvements,
     match_score |-> analysis_result.match_score,
     strategy_summary |-> analysis_result.strategy_summary]

SaveErrs == {"none", "update_one", "find_one"}

\* save_analysis: err names the driver call that fails, if any
save_analysis(coll, new_id, t, resume_id, club_name, analysis_result, err) ==
    LET analysis_doc == AnalysisDoc(resume_id, club_name, t, analysis_result)
        result == update_one(coll, resume_id, club_name, analysis_doc, new_id)
        existing == find_one(result.coll, resume_id, club_name)
    IN  Catch(
          IF Raises(err, "update_one") THEN Raised(coll)
          ELSE IF result.upserted_id # NoneV
               THEN Returned(result.upserted_id, result.coll)
          ELSE IF Raises(err, "find_one") THEN Raised(result.coll)
          ELSE Returned(IF existing # NoneV THEN Some(existing[1]._id)
                        ELSE NoneV,
                        result.coll),
          NoneV)

\* whether save_analysis inserts a document (and so uses up an _id)
SaveInserts(coll, resume_id, club_name, err) ==
    /\ ~Raises(err, "update_one")
    /\ Matching(coll, resume_id, club_name) = {}

\* whether a driver call of save_analysis fails
SaveFails(coll, resume_id, club_name, err) ==
    \/ Raises(err, "update_one")
    \/ Matching(coll, resume_id, club_name) # {} /\ Raises(err, "find_one")

ReadErrs == {"none", "find"}
DeleteErrs == {"none", "delete"}

\* get_analysis
get_analysis(coll, resume_id, club_name, err) ==
    Catch(IF Raises(err, "find") THEN Raised(coll)
          ELSE Returned(find_one(coll, resume_id, club_name), coll),
          NoneV)

\* get_analyses_for_resume: the outcomes the sort allows
get_analyses_for_resume(coll, resume_id, err) ==
    IF Raises(err, "find") THEN {Catch(Raised(coll), <<>>)}
    ELSE {Catch(Returned(q, coll), <<>>) :
            q \in SortedByTimestamp({doc \in coll : doc.resume_id = resume_id})}

\* get_recent_analyses
get_recent_analyses(coll, limit, err) ==
    IF Raises(err, "find") THEN {Catch(Raised(coll), <<>>)}
    ELSE {Catch(Returned(Limit(q, limit), coll), <<>>) :
            q \in SortedByTimestamp(coll)}

\* delete_analysis
delete_analysis(coll, analysis_id, err) ==
    Catch(IF Raises(err, "delete") THEN Raised(coll)
          ELSE LET result == delete_one(coll, analysis_id)
               IN  Returned(result.deleted_count > 0, result.coll),
          FALSE)

\* delete_analyses_for_resume
delete_analyses_for_resume(coll, resume_id, err) ==
    Catch(IF Raises(err, "delete") THEN Raised(coll)
          ELSE LET result == delete_many_resume(coll, resume_id)
               IN  Returned(result.deleted_count > 0, result.coll),
          FALSE)

\* a delete of a resume that takes the resume's analyses with it
delete_resume_cascading(resume_docs, coll, resume_id, err) ==
    IF Raises(err, "delete")
    THEN [exc |-> FALSE, ret |-> FALSE, coll |-> coll,
          resume_docs |-> resume_docs]
    ELSE [exc |-> FALSE, ret |-> resume_id \in resume_docs,
          coll |-> {doc \in coll : doc.resume_id # resume_id},
          resume_docs |-> resume_docs \ {resume_id}]

\* ResumeDatabase.delete_resume: delete_one on the resumes collection; the
\* analyses collection coll is not among what it touches
delete_resume(resume_docs, coll, resume_id, err) ==
    IF Raises(err, "delete")
    THEN [exc |-> FALSE, ret |-> FALSE, coll |-> coll,
          resume_docs |-> resume_docs]
    ELSE [exc |-> FALSE, ret |-> resume_id \in resume_docs,
          coll |-> coll,
          resume_docs |-> resume_docs \ {resume_id}]

\* a mean as the fraction num/den (Python's float sum/len); the int 0 is 0/1
Rat(num, den) == [num |-> num, den |-> den]
Zero == Rat(0, 1)
RatGeq(a, b) == a.num * b.den >= b.num * a.den

RECURSIVE SumScores(_)
SumScores(docs) ==
    IF docs = {} THEN 0
    ELSE LET doc == CHOOSE doc \in docs : TRUE
         IN  doc.match_score + SumScores(docs \ {doc})

\* {"$group": {"_id": ..., "avg_score": {"$avg": "$match_score"}}} of one group
AvgScore(docs) == Rat(SumScores(docs), Cardinality(docs))

\* the top_clubs pipeline: $group by club_name, $sort by avg_score
\* descending (equal averages in no specified order), $limit 5
TopClubs(coll) ==
    LET groups == {[_id |-> c,
                    avg_score |-> AvgScore({doc \in coll : doc.club_name = c}),
                    analysis_count |->
                        Cardinality({doc \in coll : doc.club_name = c})] :
                   c \in {doc.club_name : doc \in coll}}
    IN  {SubSeq(q, 1, Min(top_clubs_limit, Len(q))) :
            q \in {q \in Perms(groups) :
                     \A i \in 1..(Len(q) - 1) :
                        RatGeq(q[i].avg_score, q[i + 1].avg_score)}}

ZeroStatistics ==
    [total_analyses |-> 0, average_match_score |-> Zero, unique_resumes |-> 0,
     unique_clubs |-> 0, recent_analyses |-> 0, top_clubs |-> <<>>]

\* get_analysis_statistics: the outcomes the $sort allows
get_analysis_statistics(coll, t, err) ==
    IF Raises(err, "find") THEN {Catch(Raised(coll), ZeroStatistics)}
    ELSE {Catch(Returned(
              [total_analyses |-> Cardinality(coll),
               average_match_score |->
                   IF coll = {} THEN Zero ELSE AvgScore(coll),
               unique_resumes |-> Cardinality({doc.resume_id : doc \in coll}),
               unique_clubs |-> Cardinality({doc.club_name : doc \in coll}),
               recent_analyses |->
                   Cardinality({doc \in coll : doc.analysis_timestamp
                                    >= t - week_days * hours_per_day}),
               top_clubs |-> top],
              coll), ZeroStatistics) :
          top \in TopClubs(coll)}

\* datetime.isoformat()
IsoFormat(t) == [isoformat |-> t]

\* one entry of the export's "analyses"
ExportEntry(analysis) ==
    [club_name |-> analysis.club_name,
     match_score |-> analysis.match_score,
     analysis_timestamp |-> IsoFormat(analysis.analysis_timestamp),
     networking_strategy |-> analysis.networking_strategy,
     campus_resources |-> analysis.campus_resources,
     application_timeline |-> analysis.application_timeline,
     preparation_steps |-> analysis.preparation_steps,
     improvements |-> analysis.improvements,
     strategy_summary |-> analysis.strategy_summary]

EmptyDict == [x \in {} |-> 0]

\* export_analyses_to_dict
export_analyses_to_dict(coll, t, resume_id, err) ==
    {Catch(IF listed.exc THEN Raised(coll)
           ELSE Returned(
                  [resume_id |-> resume_id,
                   export_timestamp |-> IsoFormat(t),
                   total_analyses |-> Len(listed.ret),
                   analyses |-> [i \in 1..Len(listed.ret) |->
                                    ExportEntry(listed.ret[i])]],
                  coll),
           EmptyDict) :
       listed \in get_analyses_for_resume(coll, resume_id, err)}

----------------------------------------------------------------------------
(* AnalysisManager: analyze_resume_for_club.  The call reads the store,     *)
(* waits for the provider and writes the store; another request may run     *)
(* between the read and the write, so the call is two steps.                *)

\* a cache check that also takes a record of exactly the cache duration
CacheValidInclusive(cached_analysis, t) ==
    t - cached_analysis.analysis_timestamp <= cache_duration

\* cache_age < self.cache_duration
\* a cache window that leaves out the record written at this very instant
CacheValidAged(cached_analysis, t) ==
    /\ t - cached_analysis.analysis_timestamp > 0
    /\ t - cached_analysis.analysis_timestamp < cache_duration

CacheValid(cached_analysis, t) ==
    t - cached_analysis.analysis_timestamp < cache_duration

\* a cached result that loses the record's score
CachedResultNoScore(cached_analysis) ==
    AnalysisResult(cached_analysis.networking_strategy,
                   cached_analysis.campus_resources,
                   cached_analysis.application_timeline,
                   cached_analysis.preparation_steps,
                   cached_analysis.improvements,
                   0,
                   cached_analysis.strategy_summary)

\* the AnalysisResult built from a cached document
CachedResult(cached_analysis) ==
    AnalysisResult(cached_analysis.networking_strategy,
                   cached_analysis.campus_resources,
                   cached_analysis.application_timeline,
                   cached_analysis.preparation_steps,
                   cached_analysis.improvements,
                   cached_analysis.match_score,
                   cached_analysis.strategy_summary)

\* an entry that stamps the record it serves from the cache with the time of
\* the hit
analyze_entry_touching(coll, t, resume_id, club_data, force_refresh, err) ==
    LET club_name == ClubName(club_data)
        cached_analysis == get_analysis(coll, resume_id, club_name, err)
    IN  IF /\ ~force_refresh
           /\ cached_analysis.ret # NoneV
           /\ CacheValid(cached_analysis.ret[1], t)
        THEN [pc |-> "done", cached |-> TRUE,
              ret |-> Some(CachedResult(cached_analysis.ret[1])),
              raised |-> FALSE,
              coll |-> (coll \ {cached_analysis.ret[1]}) \cup
                       {[cached_analysis.ret[1]
                           EXCEPT !.analysis_timestamp = t]}]
        ELSE IF ~is_configured(api_key, client)
        THEN [pc |-> "done", cached |-> FALSE, ret |-> NoneV,
              raised |-> FALSE, coll |-> coll]
        ELSE [pc |-> "llm", cached |-> FALSE, ret |-> NoneV,
              raised |-> FALSE, coll |-> coll]

\* the call up to the provider call: the cache check and the configuration
\* check. [pc, cached, ret, raised, coll]; pc = "llm" when the call goes on
\* an entry that looks at the configuration before it looks at the cache
analyze_entry_config_first(coll, t, resume_id, club_data, force_refresh, err) ==
    LET club_name == ClubName(club_data)
        cached_analysis == get_analysis(coll, resume_id, club_name, err)
    IN  IF ~is_configured(api_key, client)
        THEN [pc |-> "done", cached |-> FALSE, ret |-> NoneV,
              raised |-> FALSE, coll |-> coll]
        ELSE IF ~force_refresh /\ cached_analysis.exc
        THEN [pc |-> "done", cached |-> FALSE, ret |-> NoneV,
              raised |-> TRUE, coll |-> coll]
        ELSE IF /\ ~force_refresh
                /\ cached_analysis.ret # NoneV
                /\ CacheValid(cached_analysis.ret[1], t)
        THEN [pc |-> "done", cached |-> TRUE,
              ret |-> Some(CachedResult(cached_analysis.ret[1])),
              raised |-> FALSE, coll |-> coll]
        ELSE [pc |-> "llm", cached |-> FALSE, ret |-> NoneV,
              raised |-> FALSE, coll |-> coll]

analyze_entry(coll, t, resume_id, club_data, force_refresh, err) ==
    LET club_name == ClubName(club_data)
        cached_analysis == get_analysis(coll, resume_id, club_name, err)
    IN  IF ~force_refresh /\ cached_analysis.exc
        THEN [pc |-> "done", cached |-> FALSE, ret |-> NoneV,
              raised |-> TRUE, coll |-> coll]
        ELSE IF /\ ~force_refresh
                /\ cached_analysis.ret # NoneV
                /\ CacheValid(cached_analysis.ret[1], t)
        THEN [pc |-> "done", cached |-> TRUE,
              ret |-> Some(CachedResult(cached_analysis.ret[1])),
              raised |-> FALSE, coll |-> coll]
        ELSE IF ~is_configured(api_key, client)
        THEN [pc |-> "done", cached |-> FALSE, ret |-> NoneV,
              raised |-> FALSE, coll |-> coll]
        ELSE [pc |-> "llm", cached |-> FALSE, ret |-> NoneV,
              raised |-> FALSE, coll |-> coll]

\* a finish that leaves the record of the pair alone when there is one
analyze_finish_first_wins(coll, new_id, t, resume_id, club_data, script, err) ==
    LET club_name == ClubName(club_data)
        analysis == llm_analyze_resume_for_club(client, script)
        saved == save_analysis(coll, new_id, t, resume_id, club_name,
                               analysis.result, err)
    IN  IF Matching(coll, resume_id, club_name) # {}
        THEN [ret |-> Some(analysis.result), attempts |-> analysis.attempts,
              raised |-> FALSE, coll |-> coll]
        ELSE IF saved.exc
        THEN [ret |-> NoneV, attempts |-> analysis.attempts,
              raised |-> TRUE, coll |-> saved.coll]
        ELSE [ret |-> Some(analysis.result), attempts |-> analysis.attempts,
              raised |-> FALSE, coll |-> saved.coll]

\* a finish that does not store the result of a failed LLM call
analyze_finish_skipping_failed(coll, new_id, t, resume_id, club_data, script, err) ==
    LET club_name == ClubName(club_data)
        analysis == llm_analyze_resume_for_club(client, script)
        saved == save_analysis(coll, new_id, t, resume_id, club_name,
                               analysis.result, err)
    IN  IF call_llm(script).exc
        THEN [ret |-> Some(analysis.result), attempts |-> analysis.attempts,
              raised |-> FALSE, coll |-> coll]
        ELSE IF saved.exc
        THEN [ret |-> NoneV, attempts |-> analysis.attempts,
              raised |-> TRUE, coll |-> saved.coll]
        ELSE [ret |-> Some(analysis.result), attempts |-> analysis.attempts,
              raised |-> FALSE, coll |-> saved.coll]

\* the rest of the call: the adapter's analysis, the save, the return
\* (an AnalysisResult is always truthy). [ret, attempts, raised, coll]
analyze_finish(coll, new_id, t, resume_id, club_data, script, err) ==
    LET club_name == ClubName(club_data)
        analysis == llm_analyze_resume_for_club(client, script)
        saved == save_analysis(coll, new_id, t, resume_id, club_name,
                               analysis.result, err)
    IN  IF saved.exc
        THEN [ret |-> NoneV, attempts |-> analysis.attempts,
              raised |-> TRUE, coll |-> saved.coll]
        ELSE [ret |-> Some(analysis.result), attempts |-> analysis.attempts,
              raised |-> FALSE, coll |-> saved.coll]

\* a sort that puts a pair before the pairs of its own score
RECURSIVE InsertBeforeEqual(_, _)
InsertBeforeEqual(sorted, x) ==
    IF sorted = <<>> THEN <<x>>
    ELSE IF Head(sorted)[2].match_score > x[2].match_score
         THEN <<Head(sorted)>> \o InsertBeforeEqual(Tail(sorted), x)
         ELSE <<x>> \o sorted

\* sorted(results, key=lambda x: x[1].match_score, reverse=True): Python's
\* sort is stable, so each pair goes after the pairs with a score >= its own
RECURSIVE InsertByScore(_, _)
InsertByScore(sorted, x) ==
    IF sorted = <<>> THEN <<x>>
    ELSE IF Head(sorted)[2].match_score >= x[2].match_score
         THEN <<Head(sorted)>> \o InsertByScore(Tail(sorted), x)
         ELSE <<x>> \o sorted

RECURSIVE SortedByScore(_)
SortedByScore(results) ==
    IF results = <<>> THEN <<>>
    ELSE InsertByScore(SortedByScore(SubSeq(results, 1, Len(results) - 1)),
                       results[Len(results)])

RECURSIVE SumSeq(_)
SumSeq(q) == IF q = <<>> THEN 0 ELSE Head(q) + SumSeq(Tail(q))

\* a comparison that divides without looking whether there are results: the
\* mean of no results is 0/0
ManyResultDividing(results) ==
    LET sorted_results == SortedByScore(results)
        match_scores == [i \in 1..Len(results) |->
                            results[i][2].match_score]
    IN  [analyses |-> sorted_results,
         top_match |-> IF sorted_results # <<>>
                       THEN Some(sorted_results[1]) ELSE NoneV,
         average_score |-> Rat(SumSeq(match_scores), Len(match_scores)),
         total_analyzed |-> Len(results)]

\* the comparative analysis analyze_resume_for_multiple_clubs returns
ManyResult(results) ==
    IF results # <<>>
    THEN LET sorted_results == SortedByScore(results)
             match_scores == [i \in 1..Len(results) |->
                                 results[i][2].match_score]
         IN  [analyses |-> sorted_results,
              top_match |-> Some(sorted_results[1]),
              average_score |-> Rat(SumSeq(match_scores), Len(match_scores)),
              total_analyzed |-> Len(results)]
    ELSE [analyses |-> <<>>, top_match |-> NoneV, average_score |-> Zero,
          total_analyzed |-> 0]

\* max(analyses, key=lambda x: x["match_score"]): the first maximal element
\* a maximum search that keeps the last of equal scores
LastMax(q) ==
    q[CHOOSE i \in 1..Len(q) :
        /\ \A j \in 1..Len(q) : q[i].match_score >= q[j].match_score
        /\ \A j \in (i + 1)..Len(q) : q[j].match_score < q[i].match_score]

FirstMax(q) ==
    q[CHOOSE i \in 1..Len(q) :
        /\ \A j \in 1..Len(q) : q[i].match_score >= q[j].match_score
        /\ \A j \in 1..(i - 1) : q[j].match_score < q[i].match_score]

MaxTimestamp(q) ==
    CHOOSE t \in {q[i].analysis_timestamp : i \in 1..Len(q)} :
        \A i \in 1..Len(q) : t >= q[i].analysis_timestamp

\* get_resume_analysis_summary: no try of its own
get_resume_analysis_summary(coll, resume_id, err) ==
    {IF listed.exc THEN Raised(coll)
     ELSE IF listed.ret = <<>>
     THEN Returned([count |-> 0, average_score |-> Zero, top_club |-> NoneV],
                   coll)
     ELSE LET analyses == listed.ret
              scores == [i \in 1..Len(analyses) |-> analyses[i].match_score]
              top_analysis == FirstMax(analyses)
          IN  Returned([count |-> Len(analyses),
                        average_score |-> Rat(SumSeq(scores), Len(scores)),
                        top_club |-> Some(top_analysis.club_name),
                        top_score |-> top_analysis.match_score,
                        last_updated |-> MaxTimestamp(analyses)],
                       coll) :
       listed \in get_analyses_for_resume(coll, resume_id, err)}

\* json.dumps(export_data, indent=2, default=str)
JsonDumps(data) == [json |-> data]

\* export_resume_analyses: no try of its own
export_resume_analyses(coll, t, resume_id, err) ==
    {IF exported.exc THEN Raised(coll)
     ELSE Returned(JsonDumps(exported.ret), coll) :
       exported \in export_analyses_to_dict(coll, t, resume_id, err)}

\* cleanup_old_analyses: the cutoff is computed before the try, and the
\* subtraction raises OverflowError when datetime cannot hold the result
cleanup_old_analyses(coll, t, days_old, err) ==
    LET cutoff_date == t - days_old * hours_per_day
    IN  IF cutoff_date < -(MaxDaysBack * hours_per_day) THEN Raised(coll)
        ELSE Catch(IF Raises(err, "delete") THEN Raised(coll)
                   ELSE LET result == delete_many_older(coll, cutoff_date)
                        IN  Returned(result.deleted_count, result.coll),
                   0)

----------------------------------------------------------------------------
(* The state machine *)

Procs == {1, 2}

\* no provider script: of a request that is not within call_llm
NoScript == [fails |-> 0, response |-> NoneV]

Idle ==
    [pc |-> "idle", resume_id |-> "", club_data |-> <<>>,
     force_refresh |-> FALSE, failed |-> FALSE, invoked |-> 0,
     attempts |-> 0, todo |-> <<>>, results |-> <<>>, script |-> NoScript]

\* out: what the latest finished call showed: its return value (under the
\* name of the call, the values of different calls being of different kinds;
\* an exception leaves no value), whether an exception left it, whether a
\* driver call failed in it, whether the result came from the cache, how
\* often the adapter was invoked and how many provider calls that made
Outcome(op, ret, exc, failed, cached, invoked, attempts) ==
    [op |-> op, ret |-> IF exc THEN <<"raised">> ELSE <<op, ret>>,
     exc |-> exc, failed |-> failed,
     cached |-> cached, invoked |-> invoked, attempts |-> attempts]

\* the value a finished call returned
Ret(o) == o.ret[2]

\* no call has returned since the latest call began
Pending == Outcome("none", NoneV, FALSE, FALSE, FALSE, 0, 0)

\* the outcome of a call that does not reach the adapter
Direct(op, o, failed) == Outcome(op, o.ret, o.exc, failed, FALSE, 0, 0)

Init ==
    /\ collection = {}
    /\ connected \in BOOLEAN
    /\ api_key \in BOOLEAN
    /\ client \in BOOLEAN
    /\ now = 0
    /\ next_id = 1
    /\ proc = [p \in Procs |-> Idle]
    /\ out = Pending
    /\ resume_collection = Resumes

\* time passes, up to one of the instants
Tick(instants) ==
    /\ \E t \in instants : t > now /\ now' = t
    /\ UNCHANGED <<resume_collection,
                   collection, connected, api_key, client, next_id, proc, out>>

\* next_id after a call that left the collection as coll
NextId(coll) ==
    IF \E doc \in coll : doc._id = next_id THEN next_id + 1 ELSE next_id

\* a caller calls analyze_resume_for_club; the call returns at once (a cache
\* hit, no configuration) or goes on to the provider
Analyze(p, resume_id, club_data, force_refresh, err) ==
    /\ proc[p].pc = "idle"
    /\ force_refresh => err = "none"
    /\ LET e == analyze_entry(collection, now, resume_id, club_data,
                              force_refresh, err)
           failed == ~force_refresh /\ Raises(err, "find")
       IN  /\ collection' = e.coll
           /\ IF e.pc = "done"
              THEN /\ out' = Outcome("analyze", e.ret, e.raised, failed,
                                     e.cached, 0, 0)
                   /\ proc' = proc
              ELSE /\ out' = Pending
                   /\ proc' = [proc EXCEPT ![p] =
                                 [Idle EXCEPT !.pc = "llm",
                                              !.resume_id = resume_id,
                                              !.club_data = club_data,
                                              !.force_refresh = force_refresh,
                                              !.failed = failed]]
    /\ UNCHANGED <<resume_collection,
                   connected, api_key, client, now, next_id>>

\* the provider answers (or fails for good); the call saves and returns
AnalyzeFinish(p, script, err) ==
    /\ proc[p].pc = "llm"
    /\ SaveInserts(collection, proc[p].resume_id,
                   ClubName(proc[p].club_data), err) => next_id <= MaxIds
    /\ LET f == analyze_finish(collection, next_id, now, proc[p].resume_id,
                               proc[p].club_data, script, err)
           failed == \/ proc[p].failed
                     \/ SaveFails(collection, proc[p].resume_id,
                                  ClubName(proc[p].club_data), err)
       IN  /\ collection' = f.coll
           /\ next_id' = NextId(f.coll)
           /\ out' = Outcome("analyze", f.ret, f.raised, failed, FALSE,
                             1, f.attempts)
           /\ proc' = [proc EXCEPT ![p] = Idle]
    /\ UNCHANGED <<resume_collection, connected, api_key, client, now>>

\* a caller calls analyze_resume_for_multiple_clubs
AnalyzeMany(p, resume_id, clubs_data, force_refresh) ==
    /\ proc[p].pc = "idle"
    /\ IF clubs_data = <<>>
       THEN /\ out' = Outcome("analyze_many", ManyResult(<<>>), FALSE, FALSE,
                              FALSE, 0, 0)
            /\ proc' = proc
       ELSE /\ out' = Pending
            /\ proc' = [proc EXCEPT ![p] =
                          [Idle EXCEPT !.pc = "many",
                                       !.resume_id = resume_id,
                                       !.force_refresh = force_refresh,
                                       !.todo = clubs_data]]
    /\ UNCHANGED <<resume_collection,
                   collection, connected, api_key, client, now, next_id>>

\* a loop that collects an absent result as a result of score 0
ManyCollectAbsent(p, r) ==
    LET club_name == ClubName(Head(proc[p].todo))
        results == Append(proc[p].results,
                          <<club_name,
                            IF r.ret # NoneV THEN r.ret[1]
                            ELSE ClientFallback>>)
        failed == proc[p].failed \/ r.failed
        invoked == proc[p].invoked + r.invoked
        attempts == proc[p].attempts + r.attempts
    IN  IF Tail(proc[p].todo) = <<>>
        THEN /\ out' = Outcome("analyze_many", ManyResult(results), FALSE,
                               failed, FALSE, invoked, attempts)
             /\ proc' = [proc EXCEPT ![p] = Idle]
        ELSE /\ out' = out
             /\ proc' = [proc EXCEPT ![p].pc = "many",
                                     ![p].todo = Tail(proc[p].todo),
                                     ![p].results = results,
                                     ![p].failed = failed,
                                     ![p].invoked = invoked,
                                     ![p].attempts = attempts]

\* the loop of analyze_resume_for_multiple_clubs after the call for the
\* club Head(todo) gave r = [ret, raised, failed, invoked, attempts]: the
\* result is collected if it is not None, and the loop goes on or ends
ManyCollect(p, r) ==
    LET club_name == ClubName(Head(proc[p].todo))
        results == IF r.ret # NoneV
                   THEN Append(proc[p].results, <<club_name, r.ret[1]>>)
                   ELSE proc[p].results
        failed == proc[p].failed \/ r.failed
        invoked == proc[p].invoked + r.invoked
        attempts == proc[p].attempts + r.attempts
    IN  IF r.raised
        THEN /\ out' = Outcome("analyze_many", NoneV, TRUE, failed, FALSE,
                               invoked, attempts)
             /\ proc' = [proc EXCEPT ![p] = Idle]
        ELSE IF Tail(proc[p].todo) = <<>>
        THEN /\ out' = Outcome("analyze_many", ManyResult(results), FALSE,
                               failed, FALSE, invoked, attempts)
             /\ proc' = [proc EXCEPT ![p] = Idle]
        ELSE /\ out' = out
             /\ proc' = [proc EXCEPT ![p].pc = "many",
                                     ![p].todo = Tail(proc[p].todo),
                                     ![p].results = results,
                                     ![p].failed = failed,
                                     ![p].invoked = invoked,
                                     ![p].attempts = attempts]

\* the loop calls analyze_resume_for_club for the next club
ManyEntry(p, err) ==
    /\ proc[p].pc = "many"
    /\ proc[p].force_refresh => err = "none"
    /\ LET e == analyze_entry(collection, now, proc[p].resume_id,
                              Head(proc[p].todo), proc[p].force_refresh, err)
           failed == ~proc[p].force_refresh /\ Raises(err, "find")
       IN  /\ collection' = e.coll
           /\ IF e.pc = "done"
              THEN ManyCollect(p, [ret |-> e.ret, raised |-> e.raised,
                                   failed |-> failed, invoked |-> 0,
                                   attempts |-> 0])
              ELSE /\ out' = out
                   /\ proc' = [proc EXCEPT ![p].pc = "many_llm",
                                           ![p].failed = @ \/ failed]
    /\ UNCHANGED <<resume_collection,
                   connected, api_key, client, now, next_id>>

\* the provider answers within the loop; that call saves and returns
ManyFinish(p, script, err) ==
    /\ proc[p].pc = "many_llm"
    /\ SaveInserts(collection, proc[p].resume_id,
                   ClubName(Head(proc[p].todo)), err) => next_id <= MaxIds
    /\ LET f == analyze_finish(collection, next_id, now, proc[p].resume_id,
                               Head(proc[p].todo), script, err)
       IN  /\ collection' = f.coll
           /\ next_id' = NextId(f.coll)
           /\ ManyCollect(p, [ret |-> f.ret, raised |-> f.raised,
                              failed |-> SaveFails(collection,
                                            proc[p].resume_id,
                                            ClubName(Head(proc[p].todo)), err),
                              invoked |-> 1, attempts |-> f.attempts])
    /\ UNCHANGED <<resume_collection, connected, api_key, client, now>>

\* a caller calls call_llm; the provider will behave as script says
CallLlm(p, script) ==
    /\ proc[p].pc = "idle"
    /\ out' = Pending
    /\ proc' = [proc EXCEPT ![p] = [Idle EXCEPT !.pc = "call",
                                                !.script = script]]
    /\ UNCHANGED <<resume_collection,
                   collection, connected, api_key, client, now, next_id>>

\* one attempt of call_llm under @retry: the provider answers and call_llm
\* returns the text, or it raises and tenacity tries again unless the stop
\* condition holds, when the exception leaves call_llm
Attempt(p) ==
    /\ proc[p].pc = "call"
    /\ LET attempt == proc[p].attempts + 1
       IN  IF attempt > proc[p].script.fails
           THEN /\ out' = Outcome("call_llm", proc[p].script.response, FALSE,
                                  FALSE, FALSE, 0, attempt)
                /\ proc' = [proc EXCEPT ![p] = Idle]
           ELSE IF stop_after_attempt(attempt)
           THEN /\ out' = Outcome("call_llm", NoneV, TRUE, FALSE, FALSE, 0,
                                  attempt)
                /\ proc' = [proc EXCEPT ![p] = Idle]
           ELSE /\ out' = out
                /\ proc' = [proc EXCEPT ![p].attempts = attempt]
    /\ UNCHANGED <<resume_collection,
                   collection, connected, api_key, client, now, next_id>>

\* the methods that are one step: a caller calls the method and it returns

\* result = self.parse_llm_response(response), on the text call_llm returned
ParseLlmResponse(p) ==
    /\ proc[p].pc = "idle"
    /\ out.op = "call_llm"
    /\ ~out.exc
    /\ out' = Outcome("parse_llm_response", parse_llm_response(Ret(out)),
                      FALSE, FALSE, FALSE, 0, out.attempts)
    /\ UNCHANGED <<resume_collection,
                   collection, connected, api_key, client, now, next_id, proc>>

\* the Delete button of the resume list
DeleteResume(resume_id, err) ==
    /\ LET o == delete_resume(resume_collection, collection, resume_id, err)
       IN  /\ resume_collection' = o.resume_docs
           /\ collection' = o.coll
           /\ out' = Direct("delete_resume", o, Raises(err, "delete"))
    /\ UNCHANGED <<connected, api_key, client, now, next_id, proc>>

\* the Analyze button of a listed resume: the page asks for an analysis of
\* a stored resume, once it has seen that the adapter is configured
QuickAnalysis(p, resume_id, club_data, err) ==
    /\ resume_id \in resume_collection
    /\ is_configured(api_key, client)
    /\ Analyze(p, resume_id, club_data, FALSE, err)

Frame == UNCHANGED <<resume_collection, connected, api_key, client, now, proc>>

SaveAnalysis(resume_id, club_name, analysis_result, err) ==
    /\ SaveInserts(collection, resume_id, club_name, err) => next_id <= MaxIds
    /\ LET o == save_analysis(collection, next_id, now, resume_id, club_name,
                              analysis_result, err)
       IN  /\ collection' = o.coll
           /\ next_id' = NextId(o.coll)
           /\ out' = Direct("save_analysis", o,
                            SaveFails(collection, resume_id, club_name, err))
    /\ Frame

GetAnalysis(resume_id, club_name, err) ==
    /\ LET o == get_analysis(collection, resume_id, club_name, err)
       IN  /\ collection' = o.coll
           /\ out' = Direct("get_analysis", o, Raises(err, "find"))
    /\ UNCHANGED next_id
    /\ Frame

GetAnalysesForResume(resume_id, err) ==
    /\ \E o \in get_analyses_for_resume(collection, resume_id, err) :
           /\ collection' = o.coll
           /\ out' = Direct("get_analyses_for_resume", o, Raises(err, "find"))
    /\ UNCHANGED next_id
    /\ Frame

GetRecentAnalyses(limit, err) ==
    /\ \E o \in get_recent_analyses(collection, limit, err) :
           /\ collection' = o.coll
           /\ out' = Direct("get_recent_analyses", o, Raises(err, "find"))
    /\ UNCHANGED next_id
    /\ Frame

DeleteAnalysis(analysis_id, err) ==
    /\ LET o == delete_analysis(collection, analysis_id, err)
       IN  /\ collection' = o.coll
           /\ out' = Direct("delete_analysis", o, Raises(err, "delete"))
    /\ UNCHANGED next_id
    /\ Frame

DeleteAnalysesForResume(resume_id, err) ==
    /\ LET o == delete_analyses_for_resume(collection, resume_id, err)
       IN  /\ collection' = o.coll
           /\ out' = Direct("delete_analyses_for_resume", o,
                            Raises(err, "delete"))
    /\ UNCHANGED next_id
    /\ Frame

GetAnalysisStatistics(err) ==
    /\ \E o \in get_analysis_statistics(collection, now, err) :
           /\ collection' = o.coll
           /\ out' = Direct("get_analysis_statistics", o, Raises(err, "find"))
    /\ UNCHANGED next_id
    /\ Frame

GetResumeAnalysisSummary(resume_id, err) ==
    /\ \E o \in get_resume_analysis_summary(collection, resume_id, err) :
           /\ collection' = o.coll
           /\ out' = Direct("get_resume_analysis_summary", o,
                            Raises(err, "find"))
    /\ UNCHANGED next_id
    /\ Frame

ExportResumeAnalyses(resume_id, err) ==
    /\ \E o \in export_resume_analyses(collection, now, resume_id, err) :
           /\ collection' = o.coll
           /\ out' = Direct("export_resume_analyses", o, Raises(err, "find"))
    /\ UNCHANGED next_id
    /\ Frame

CleanupOldAnalyses(days_old, err) ==
    /\ LET o == cleanup_old_analyses(collection, now, days_old, err)
       IN  /\ collection' = o.coll
           /\ out' = Direct("cleanup_old_analyses", o, Raises(err, "delete"))
    /\ UNCHANGED next_id
    /\ Frame

----------------------------------------------------------------------------
(* The inputs the specifications draw from *)

OkA == [fails |-> 0,
        response |-> Some(<<"FENCE_JSON", "WS", "OBJ_A", "WS", "FENCE">>)]
RetryB == [fails |-> 2, response |-> Some(<<"WS", "OBJ_B">>)]
Malformed == [fails |-> 0, response |-> Some(<<"word", "WS", "word">>)]
Down == [fails |-> max_attempts, response |-> NoneV]
Scripts == {OkA, Malformed, Down}

ResultA == parse_llm_response(OkA.response)
ResultB == parse_llm_response(RetryB.response)
Payloads == {ResultA, ResultB}

RECURSIVE SeqsUpTo(_, _)
SeqsUpTo(S, n) ==
    IF n = 0 THEN {<<>>}
    ELSE LET shorter == SeqsUpTo(S, n - 1)
         IN  shorter \cup {Append(q, x) : q \in shorter, x \in S}

ClubLists == SeqsUpTo(Clubs, MaxClubs)
Ids == 1..MaxIds
Limits == 0..MaxIds
DaysOld == {0, 1, MaxDaysBack + 1}
EarlyLate == {0, 25}

\* the (club_name, analysis_result) pairs a comparison may have collected
RankScores == {40, 70, 95}
RankPairs ==
    {<<club_name, [ResultA EXCEPT !.match_score = score]>> :
        club_name \in {"Launchpad", "Hackers"}, score \in RankScores}
RankLists == SeqsUpTo(RankPairs, MaxRanked)

\* the record of a cached analysis of score 40 for Launchpad, saved at hour 0
Doc40 ==
    Inserted(AnalysisDoc("r1", "Launchpad", 0,
                         [ResultA EXCEPT !.match_score = 40]), 1)

\* analyze_resume_for_club, by request p
AnalyzeCalls(p, resumes, scripts) ==
    \/ \E resume_id \in resumes, club_data \in Clubs,
          force_refresh \in BOOLEAN, err \in ReadErrs :
          Analyze(p, resume_id, club_data, force_refresh, err)
    \/ \E script \in scripts, err \in SaveErrs : AnalyzeFinish(p, script, err)

\* analyze_resume_for_multiple_clubs, by request p
ManyCalls(p, resumes, scripts) ==
    \/ \E resume_id \in resumes, clubs_data \in ClubLists,
          force_refresh \in BOOLEAN :
          AnalyzeMany(p, resume_id, clubs_data, force_refresh)
    \/ \E err \in ReadErrs : ManyEntry(p, err)
    \/ \E script \in scripts, err \in SaveErrs : ManyFinish(p, script, err)

\* the Orchestrator's one-step calls
OrchestratorCalls(resumes) ==
    \/ \E resume_id \in resumes, err \in ReadErrs :
          GetResumeAnalysisSummary(resume_id, err)
    \/ \E resume_id \in resumes, err \in ReadErrs :
          ExportResumeAnalyses(resume_id, err)
    \/ \E days_old \in DaysOld, err \in DeleteErrs :
          CleanupOldAnalyses(days_old, err)

\* the Store's writing methods
StoreWrites(resumes, payloads) ==
    \/ \E resume_id \in resumes, club_name \in ClubNames,
          analysis_result \in payloads, err \in SaveErrs :
          SaveAnalysis(resume_id, club_name, analysis_result, err)
    \/ \E analysis_id \in Ids, err \in DeleteErrs :
          DeleteAnalysis(analysis_id, err)
    \/ \E resume_id \in resumes, err \in DeleteErrs :
          DeleteAnalysesForResume(resume_id, err)

\* the Store's reading methods
StoreReads(resumes) ==
    \/ \E resume_id \in resumes, club_name \in ClubNames, err \in ReadErrs :
          GetAnalysis(resume_id, club_name, err)
    \/ \E resume_id \in resumes, err \in ReadErrs :
          GetAnalysesForResume(resume_id, err)
    \/ \E limit \in Limits, err \in ReadErrs : GetRecentAnalyses(limit, err)
    \/ \E err \in ReadErrs : GetAnalysisStatistics(err)

----------------------------------------------------------------------------
(* Spec: one caller analyses one resume for the clubs, with records also    *)
(* saved directly, as time passes.                                           *)

Next ==
    \/ Tick(Instants)
    \/ AnalyzeCalls(1, {"r1"}, Scripts)
    \/ \E club_name \in ClubNames, err \in SaveErrs :
          SaveAnalysis("r1", club_name, ResultB, err)

Spec == Init /\ [][Next]_vars

(* SpecOrch: one caller uses every call of the Orchestrator.                *)

NextOrch ==
    \/ Tick(EarlyLate)
    \/ AnalyzeCalls(1, {"r1"}, Scripts)
    \/ ManyCalls(1, {"r1"}, {OkA, Down})
    \/ OrchestratorCalls({"r1"})

SpecOrch == Init /\ [][NextOrch]_vars

(* SpecStore: callers use the Store's methods directly.                      *)

InitStore == Init /\ api_key /\ client

NextStore ==
    \/ Tick(EarlyLate)
    \/ StoreWrites(Resumes, Payloads)
    \/ StoreReads(Resumes)

SpecStore == InitStore /\ [][NextStore]_vars

(* SpecRace: two requests run at once, beside every call that writes, on a  *)
(* connected store; only save meets failing driver calls.                   *)

InitRace == Init /\ connected /\ api_key /\ client

NextRace ==
    \/ Tick(EarlyLate)
    \/ \E p \in Procs, club_data \in Clubs, force_refresh \in BOOLEAN :
          Analyze(p, "r1", club_data, force_refresh, "none")
    \/ \E p \in Procs : AnalyzeFinish(p, OkA, "none")
    \/ \E clubs_data \in ClubLists, force_refresh \in BOOLEAN :
          AnalyzeMany(1, "r1", clubs_data, force_refresh)
    \/ ManyEntry(1, "none")
    \/ ManyFinish(1, OkA, "none")
    \/ \E club_name \in ClubNames, err \in SaveErrs :
          SaveAnalysis("r1", club_name, ResultB, err)
    \/ \E analysis_id \in Ids : DeleteAnalysis(analysis_id, "none")
    \/ DeleteAnalysesForResume("r1", "none")
    \/ \E days_old \in DaysOld : CleanupOldAnalyses(days_old, "none")

SpecRace == InitRace /\ [][NextRace]_vars

\* two requests for the pairs of one resume, without forced refresh, whose
\* providers answer differently
NextPair ==
    \/ Tick(EarlyLate)
    \/ \E p \in Procs, club_data \in Clubs :
          Analyze(p, "r1", club_data, FALSE, "none")
    \/ \E p \in Procs, script \in {OkA, RetryB} :
          AnalyzeFinish(p, script, "none")

SpecPair == InitRace /\ [][NextPair]_vars

\* the resume list of the page: analyses of stored resumes and deletes
NextResume ==
    \/ Tick(EarlyLate)
    \/ \E resume_id \in Resumes, club_data \in Clubs, err \in ReadErrs :
          QuickAnalysis(1, resume_id, club_data, err)
    \/ \E script \in {OkA, Down}, err \in SaveErrs :
          AnalyzeFinish(1, script, err)
    \/ \E resume_id \in Resumes, err \in DeleteErrs :
          DeleteResume(resume_id, err)
    \/ \E resume_id \in Resumes, err \in DeleteErrs :
          DeleteAnalysesForResume(resume_id, err)

SpecResume == Init /\ [][NextResume]_vars

\* club lists with repeated entries
DupLists == SeqsUpTo(Clubs, MaxRanked)

\* comparisons without forced refresh of lists with repeated clubs, with a
\* configured adapter and a working store; a comparison takes less than
\* the cache window, so the clock passes it between comparisons only
NextDup ==
    \/ proc[1].pc = "idle" /\ Tick(EarlyLate)
    \/ \E clubs_data \in DupLists : AnalyzeMany(1, "r1", clubs_data, FALSE)
    \/ ManyEntry(1, "none")
    \/ \E script \in {OkA, RetryB, Down} : ManyFinish(1, script, "none")

SpecDup == InitRace /\ [][NextDup]_vars

\* a second club record without a Club Name
ChessClub == ("Primary Focus" :> "chess")
NamelessClubs == {NamelessClub, ChessClub}
NamelessLists == {<<NamelessClub, ChessClub>>, <<ChessClub, NamelessClub>>}

\* the provider's answer to the prompt made from a club record: the prompt
\* carries the club's attributes, and the answers for two clubs differ
ScriptFor(club_data) == IF club_data = ChessClub THEN RetryB ELSE OkA

\* analyses and comparisons of nameless clubs for one resume, without
\* forced refresh, with a configured adapter and a working store
NextNameless ==
    \/ Tick(EarlyLate)
    \/ \E club_data \in NamelessClubs \cup {LaunchpadClub} :
          Analyze(1, "r1", club_data, FALSE, "none")
    \/ /\ proc[1].pc = "llm"
       /\ AnalyzeFinish(1, ScriptFor(proc[1].club_data), "none")
    \/ \E clubs_data \in NamelessLists :
          AnalyzeMany(1, "r1", clubs_data, FALSE)
    \/ ManyEntry(1, "none")
    \/ /\ proc[1].pc = "many_llm"
       /\ ManyFinish(1, ScriptFor(Head(proc[1].todo)), "none")

SpecNameless == InitRace /\ [][NextNameless]_vars

(* SpecLlm: a caller uses call_llm against every provider script.  An      *)
(* attempt under way ends (the provider answers or the call raises) and the *)
(* wait before the next attempt is at most 10 seconds, so an attempt that   *)
(* is due is made.                                                          *)

NextLlm ==
    \/ \E script \in ProviderScripts : CallLlm(1, script)
    \/ Attempt(1)

SpecLlm == Init /\ [][NextLlm]_vars /\ WF_vars(Attempt(1))

\* the adapter's call followed by the parse of what it returned
NextParse ==
    \/ \E script \in ProviderScripts : CallLlm(1, script)
    \/ Attempt(1)
    \/ ParseLlmResponse(1)

SpecParse == Init /\ [][NextParse]_vars

(* SpecMany: one caller compares clubs, with records also saved directly,   *)
(* as time passes.                                                           *)

NextMany ==
    \/ Tick(EarlyLate)
    \/ ManyCalls(1, {"r1"}, {OkA, Down})
    \/ \E club_name \in ClubNames :
          SaveAnalysis("r1", club_name, ResultB, "none")

SpecMany == Init /\ [][NextMany]_vars

(* SpecRank: a comparison has collected some results and analyses its last *)
(* club, from the cache or by the adapter, and ranks what it collected.     *)

InitRank ==
    /\ collection \in {{}, {Doc40}}
    /\ connected = TRUE
    /\ api_key = TRUE
    /\ client = TRUE
    /\ now = 0
    /\ next_id = IF collection = {} THEN 1 ELSE 2
    /\ \E results \in RankLists, club_data \in Clubs,
          force_refresh \in BOOLEAN :
          proc = [p \in Procs |->
                    IF p = 1
                    THEN [Idle EXCEPT !.pc = "many",
                                      !.resume_id = "r1",
                                      !.force_refresh = force_refresh,
                                      !.todo = <<club_data>>,
                                      !.results = results,
                                      !.invoked = Len(results),
                                      !.attempts = Len(results)]
                    ELSE Idle]
    /\ out = Pending
    /\ resume_collection = Resumes

NextRank ==
    \/ ManyEntry(1, "none")
    \/ \E script \in {OkA, RetryB, Down} : ManyFinish(1, script, "none")

SpecRank == InitRank /\ [][NextRank]_vars

----------------------------------------------------------------------------
(* The properties.  Times are in hours.                                      *)

\* the records stored for the pair that are younger than 24 hours
FreshRecords(resume_id, club_name) ==
    {doc \in Matching(collection, resume_id, club_name) :
        now - doc.analysis_timestamp < 24}

\* no record is stored for the pair, or the one stored is 24 hours old or older
AbsentOrStale(resume_id, club_name) ==
    \A doc \in Matching(collection, resume_id, club_name) :
        now - doc.analysis_timestamp >= 24

\* the seven fields of result equal those of the record doc
SameFields(result, doc) == \A f \in ResultFields : result[f] = doc[f]

\* C1: when a record for (resume_id, club name) younger than 24 hours is
\* stored and analyze is called with force_refresh = false, the call returns
\* a result whose seven fields equal the stored record's fields, and the LLM
\* adapter is not invoked.
C1_CacheHitReturnsStored ==
    [][\A resume_id \in Resumes, club_data \in Clubs :
          (/\ Analyze(1, resume_id, club_data, FALSE, "none")
           /\ FreshRecords(resume_id, ClubName(club_data)) # {})
          => /\ out'.op = "analyze"
             /\ ~out'.exc
             /\ Ret(out') # NoneV
             /\ \E doc \in FreshRecords(resume_id, ClubName(club_data)) :
                    SameFields(Ret(out')[1], doc)
             /\ out'.invoked = 0
             /\ out'.attempts = 0
             /\ proc'[1].pc = "idle"]_vars

\* a call has returned the fields of a record that is 23 hours old
C1_Witness ==
    /\ out.op = "analyze"
    /\ out.cached
    /\ out.invoked = 0
    /\ \E doc \in collection :
          /\ now - doc.analysis_timestamp = 23
          /\ Ret(out) = Some(CachedResult(doc))
          /\ doc.match_score > 0

\* C2: a cache hit performs no write: the call of analyze with
\* force_refresh = false that finds a record younger than 24 hours returns
\* leaving every record of the store, the hit record's timestamp and fields
\* among them, as it was.
C2_CacheHitWritesNothing ==
    [][\A resume_id \in Resumes, club_data \in Clubs :
          (/\ Analyze(1, resume_id, club_data, FALSE, "none")
           /\ FreshRecords(resume_id, ClubName(club_data)) # {})
          => /\ out'.op = "analyze"
             /\ out'.cached
             /\ collection' = collection
             /\ next_id' = next_id]_vars

\* a call has been served from a record written an hour before, beside
\* another record, and the record still has the time of its writing
C2_Witness ==
    /\ out.op = "analyze"
    /\ out.cached
    /\ now = 1
    /\ Cardinality(collection) = 2
    /\ \E doc \in collection :
          /\ doc.analysis_timestamp = 0
          /\ Ret(out) = Some(CachedResult(doc))

\* C3: when the record stored for the pair is absent or 24 hours old or older
\* and the adapter is configured, analyze with force_refresh = false goes on
\* to the LLM adapter, invokes it, stores the new result under
\* (resume_id, club_name) in the place of any stale record (the store's
\* calls not failing), and returns the new result.
C3_MissInvokesPersistsReturns ==
    [][/\ \A resume_id \in Resumes, club_data \in Clubs, err \in ReadErrs :
            (/\ Analyze(1, resume_id, club_data, FALSE, err)
             /\ api_key /\ client
             /\ AbsentOrStale(resume_id, ClubName(club_data)))
            => /\ proc'[1].pc = "llm"
               /\ proc'[1].resume_id = resume_id
               /\ proc'[1].club_data = club_data
       /\ \A script \in Scripts, err \in SaveErrs :
            (/\ AnalyzeFinish(1, script, err)
             /\ ~proc[1].force_refresh
             /\ ~SaveFails(collection, proc[1].resume_id,
                           ClubName(proc[1].club_data), err))
            => LET club_name == ClubName(proc[1].club_data)
                   stored == Matching(collection', proc[1].resume_id,
                                      club_name)
               IN  /\ out'.op = "analyze"
                   /\ out'.invoked = 1
                   /\ Ret(out') =
                        Some(llm_analyze_resume_for_club(TRUE, script).result)
                   /\ Cardinality(stored) = 1
                   /\ \A doc \in stored :
                         /\ SameFields(Ret(out')[1], doc)
                         /\ doc.analysis_timestamp = now
                   /\ collection' \ stored =
                        collection \ Matching(collection, proc[1].resume_id,
                                              club_name)]_vars

\* a call at hour 25 has put the adapter's result in the place of a record
\* written at hour 0 (the record written after it still has hour 0)
C3_Witness ==
    /\ out.op = "analyze"
    /\ out.invoked = 1
    /\ ~out.failed
    /\ now = 25
    /\ \E doc \in collection, other \in collection :
          /\ doc._id = 1
          /\ doc.analysis_timestamp = 25
          /\ Ret(out) = Some(CachedResult(doc))
          /\ other._id = 2
          /\ other.analysis_timestamp = 0

\* the stored record of the call under way holds exactly the adapter's result
\* of now, and the records of the other pairs are as they were
Overwritten(script) ==
    LET club_name == ClubName(proc[1].club_data)
        stored == Matching(collection', proc[1].resume_id, club_name)
    IN  /\ Cardinality(stored) = 1
        /\ \A doc \in stored :
              /\ SameFields(llm_analyze_resume_for_club(TRUE, script).result,
                            doc)
              /\ doc.analysis_timestamp = now
        /\ collection' \ stored =
             collection \ Matching(collection, proc[1].resume_id, club_name)

\* C4 (as stated): whatever the age of a cached record, analyze called with
\* force_refresh = true always invokes the LLM adapter and overwrites the
\* stored record for the pair.
C4_ForceAlwaysInvokes ==
    [][/\ \A resume_id \in Resumes, club_data \in Clubs :
            Analyze(1, resume_id, club_data, TRUE, "none")
            => proc'[1].pc = "llm"
       /\ \A script \in Scripts :
            (AnalyzeFinish(1, script, "none") /\ proc[1].force_refresh
             /\ connected)
            => out'.invoked = 1 /\ Overwritten(script)]_vars

\* C4 (amended): whatever the age of a cached record, analyze called with
\* force_refresh = true and a configured adapter skips the cache, invokes
\* the LLM adapter once and, the store's calls not failing, overwrites the
\* stored record for the pair; with an adapter that is not configured it
\* returns absent without invoking the adapter or writing.
C4_ForceInvokesWhenConfigured ==
    [][/\ \A resume_id \in Resumes, club_data \in Clubs :
            Analyze(1, resume_id, club_data, TRUE, "none")
            => IF api_key /\ client
               THEN /\ proc'[1].pc = "llm"
                    /\ proc'[1].force_refresh
                    /\ collection' = collection
               ELSE /\ out'.op = "analyze"
                    /\ Ret(out') = NoneV
                    /\ out'.invoked = 0
                    /\ collection' = collection
       /\ \A script \in Scripts, err \in SaveErrs :
            (/\ AnalyzeFinish(1, script, err)
             /\ proc[1].force_refresh
             /\ ~SaveFails(collection, proc[1].resume_id,
                           ClubName(proc[1].club_data), err))
            => /\ out'.op = "analyze"
               /\ out'.invoked = 1
               /\ Ret(out') =
                    Some(llm_analyze_resume_for_club(TRUE, script).result)
               /\ Overwritten(script)]_vars

\* a forced call at hour 1 has put the adapter's result in the place of the
\* fresh record written at hour 0 (the record written after it has hour 0)
C4_Witness ==
    /\ out.op = "analyze"
    /\ out.invoked = 1
    /\ ~out.failed
    /\ now = 1
    /\ \E doc \in collection, other \in collection :
          /\ doc._id = 1
          /\ doc.analysis_timestamp = 1
          /\ Ret(out) = Some(CachedResult(doc))
          /\ other._id = 2
          /\ other.analysis_timestamp = 0

\* C5: in every reachable state, after any sequence and any interleaving of
\* save, analyze, analyze_many, delete, delete_for_resume and cleanup, the
\* store holds at most one record per (resume_id, club_name) pair.
C5_OneRecordPerPair ==
    \A doc \in collection, other \in collection :
        (doc.resume_id = other.resume_id /\ doc.club_name = other.club_name)
        => doc = other

\* one request has saved its result for a pair while the other request,
\* past its cache check for the same pair, has still to save its own
C5_Witness ==
    /\ out.op = "analyze"
    /\ out.invoked = 1
    /\ proc[2].pc = "llm"
    /\ \E doc \in collection :
          /\ doc.resume_id = proc[2].resume_id
          /\ doc.club_name = ClubName(proc[2].club_data)
          /\ doc.analysis_timestamp = now
          /\ Ret(out) = Some(CachedResult(doc))

\* C6: a save for a pair that a save has already written, with a different
\* payload, leaves exactly one record under the pair; the record carries
\* every field value of the second payload and nothing of the first, and
\* its analysis_timestamp is the second save's time, which is at or after
\* the first's.
C6_SecondSaveReplaces ==
    [][\A resume_id \in Resumes, club_name \in ClubNames,
          analysis_result \in Payloads, err \in SaveErrs :
          (/\ SaveAnalysis(resume_id, club_name, analysis_result, err)
           /\ ~Raises(err, "update_one")
           /\ \E first \in Matching(collection, resume_id, club_name) :
                 ~SameFields(analysis_result, first))
          => \E first \in Matching(collection, resume_id, club_name) :
                /\ Matching(collection', resume_id, club_name) =
                     {[_id |-> first._id,
                       resume_id |-> resume_id,
                       club_name |-> club_name,
                       analysis_timestamp |-> now,
                       networking_strategy |->
                           analysis_result.networking_strategy,
                       campus_resources |-> analysis_result.campus_resources,
                       application_timeline |->
                           analysis_result.application_timeline,
                       preparation_steps |->
                           analysis_result.preparation_steps,
                       improvements |-> analysis_result.improvements,
                       match_score |-> analysis_result.match_score,
                       strategy_summary |->
                           analysis_result.strategy_summary]}
                /\ now >= first.analysis_timestamp
                /\ collection' \ Matching(collection', resume_id, club_name)
                     = collection \ {first}]_vars

\* a save at hour 25 has replaced, under the identity it returns, the record
\* of a pair written at hour 0 (the record written after it has hour 0)
C6_Witness ==
    /\ out.op = "save_analysis"
    /\ Ret(out) = Some(1)
    /\ now = 25
    /\ \E doc \in collection, other \in collection :
          /\ doc._id = 1
          /\ doc.analysis_timestamp = 25
          /\ SameFields(ResultA, doc)
          /\ other._id = 2
          /\ other.analysis_timestamp = 0

\* C7: when analyze does not return a fresh cached record (the record is
\* absent or stale, its lookup fails, or force_refresh = true) and the LLM adapter is not
\* configured, analyze returns absent, makes no LLM call and leaves the
\* store unchanged.
C7_NotConfiguredReturnsAbsent ==
    [][\A resume_id \in Resumes, club_data \in Clubs,
          force_refresh \in BOOLEAN, err \in ReadErrs :
          (/\ Analyze(1, resume_id, club_data, force_refresh, err)
           /\ ~(api_key /\ client)
           /\ \/ force_refresh
              \/ AbsentOrStale(resume_id, ClubName(club_data))
              \/ Raises(err, "find"))
          => /\ out'.op = "analyze"
             /\ ~out'.exc
             /\ Ret(out') = NoneV
             /\ out'.invoked = 0
             /\ out'.attempts = 0
             /\ proc'[1].pc = "idle"
             /\ collection' = collection]_vars

\* with a key but no client, a call at hour 25 has returned absent beside
\* the stale record of hour 0
C7_Witness ==
    /\ out.op = "analyze"
    /\ Ret(out) = NoneV
    /\ ~out.cached
    /\ out.invoked = 0
    /\ api_key /\ ~client
    /\ now = 25
    /\ \E doc \in collection : doc.analysis_timestamp = 0

\* C8 (as stated): a failure in persistence or in the LLM invocation during
\* analyze degrades to an absent result: analyze returns absent whenever
\* the LLM call fails (after the adapter's retries) or the store write
\* fails.
C8_FailureReturnsAbsent ==
    [][\A script \in Scripts, err \in SaveErrs :
          (/\ AnalyzeFinish(1, script, err)
           /\ \/ call_llm(script).exc
              \/ SaveFails(collection, proc[1].resume_id,
                           ClubName(proc[1].club_data), err))
          => ~out'.exc /\ Ret(out') = NoneV]_vars

\* C9: no exception crosses the Orchestrator boundary: every call of
\* analyze, analyze_many, summary_for_resume, export_for_resume and cleanup,
\* under any combination of store failure (a store never connected among
\* them), LLM failure and malformed LLM output, raises nothing and returns
\* a sentinel: analyze an absent result when the LLM fails or its output is
\* malformed, summary_for_resume the zero summary and cleanup 0 when the
\* store fails.
C9_NoExceptionCrosses ==
    [][/\ ~out'.exc
       /\ (out'.op = "get_resume_analysis_summary" /\ out'.failed)
          => Ret(out') = [count |-> 0, average_score |-> [num |-> 0, den |-> 1],
                          top_club |-> NoneV]
       /\ (out'.op = "cleanup_old_analyses" /\ out'.failed)
          => Ret(out') = 0
       /\ \A script \in Scripts, err \in SaveErrs :
            (AnalyzeFinish(1, script, err) /\ script \in {Malformed, Down})
            => Ret(out') = NoneV]_vars

\* C10: every Store method catches a failure of the underlying persistence
\* call and returns its sentinel without raising: save returns null, get
\* returns absent, list_for_resume and list_recent return an empty
\* sequence, delete and delete_for_resume return false, statistics returns
\* all-zero counts with an empty top-clubs list.
C10_StoreSentinels ==
    out.failed
    => /\ ~out.exc
       /\ out.op = "save_analysis" => Ret(out) = NoneV
       /\ out.op = "get_analysis" => Ret(out) = NoneV
       /\ out.op = "get_analyses_for_resume" => Ret(out) = <<>>
       /\ out.op = "get_recent_analyses" => Ret(out) = <<>>
       /\ out.op = "delete_analysis" => Ret(out) = FALSE
       /\ out.op = "delete_analyses_for_resume" => Ret(out) = FALSE
       /\ out.op = "get_analysis_statistics"
          => Ret(out) = [total_analyses |-> 0,
                         average_match_score |-> [num |-> 0, den |-> 1],
                         unique_resumes |-> 0,
                         unique_clubs |-> 0,
                         recent_analyses |-> 0,
                         top_clubs |-> <<>>]

\* statistics, its driver call failing, has returned the zeros although
\* the store holds records
C10_Witness ==
    /\ out.op = "get_analysis_statistics"
    /\ out.failed
    /\ ~out.exc
    /\ Ret(out).total_analyses = 0
    /\ Cardinality(collection) = 2

\* C11: call_llm makes at most 3 attempts in total: it tries again after an
\* exception, returns the text of the first attempt that succeeds without a
\* further attempt, and after the third failure in a row stops and hands the
\* failure to its caller; the retry loop always ends.
C11_AtMostThreeAttempts ==
    /\ [][Attempt(1)
           => LET attempt == proc[1].attempts + 1
                  fails == proc[1].script.fails
              IN  /\ attempt <= 3
                  /\ attempt > fails
                     => /\ out'.op = "call_llm"
                        /\ ~out'.exc
                        /\ Ret(out') = proc[1].script.response
                        /\ out'.attempts = fails + 1
                        /\ proc'[1].pc = "idle"
                  /\ (attempt <= fails /\ attempt < 3)
                     => /\ proc'[1].pc = "call"
                        /\ proc'[1].attempts = attempt
                        /\ out' = out
                  /\ (attempt <= fails /\ attempt = 3)
                     => /\ out'.op = "call_llm"
                        /\ out'.exc
                        /\ out'.attempts = 3
                        /\ proc'[1].pc = "idle"
                  /\ proc'[1].pc = "idle"
                     => /\ out'.exc = call_llm(proc[1].script).exc
                        /\ out'.attempts = call_llm(proc[1].script).attempts]_vars
    /\ (proc[1].pc = "call") ~> (proc[1].pc = "idle")

\* call_llm has returned the provider's text from its third attempt
C11_Witness ==
    /\ out.op = "call_llm"
    /\ ~out.exc
    /\ out.attempts = 3
    /\ Ret(out) # NoneV

\* ranked is collected in descending order of match_score, the pairs of
\* equal score in the order they have in collected
StablyRanked(collected, ranked) ==
    /\ Len(ranked) = Len(collected)
    /\ \E from \in Perms(1..Len(collected)) :
          /\ \A i \in 1..Len(ranked) : ranked[i] = collected[from[i]]
          /\ \A i \in 1..Len(ranked), j \in 1..Len(ranked) :
                i < j
                => \/ ranked[i][2].match_score > ranked[j][2].match_score
                   \/ /\ ranked[i][2].match_score = ranked[j][2].match_score
                      /\ from[i] < from[j]

\* C12: analyze_many returns ranked_results in descending order of
\* match_score, results of equal match_score keeping the relative order of
\* their clubs in the input list (70, 95, 95, 40 give 95, 95, 70, 40 with
\* the two 95s in input order); best_match is the first of ranked_results.
C12_RankedStably ==
    [][/\ \A script \in {OkA, RetryB, Down} :
            ManyFinish(1, script, "none")
            => /\ out'.op = "analyze_many"
               /\ StablyRanked(
                     Append(proc[1].results,
                            <<ClubName(Head(proc[1].todo)),
                              llm_analyze_resume_for_club(TRUE, script).result>>),
                     Ret(out').analyses)
               /\ Ret(out').top_match = Some(Ret(out').analyses[1])
       /\ (ManyEntry(1, "none") /\ proc'[1].pc = "idle")
          => /\ out'.op = "analyze_many"
             /\ \E doc \in FreshRecords(proc[1].resume_id,
                                        ClubName(Head(proc[1].todo))) :
                   StablyRanked(
                     Append(proc[1].results,
                            <<doc.club_name, CachedResult(doc)>>),
                     Ret(out').analyses)
             /\ Ret(out').top_match = Some(Ret(out').analyses[1])]_vars

\* a comparison that collected the scores 70, 95, 95, 40, for Launchpad,
\* Hackers, Launchpad, Launchpad, has returned Hackers' 95 before
\* Launchpad's 95, then the 70 and the 40, Hackers' 95 the best match
C12_Witness ==
    /\ out.op = "analyze_many"
    /\ Len(Ret(out).analyses) = 4
    /\ [i \in 1..4 |-> Ret(out).analyses[i][2].match_score]
         = <<95, 95, 70, 40>>
    /\ [i \in 1..4 |-> Ret(out).analyses[i][1]]
         = <<"Hackers", "Launchpad", "Launchpad", "Launchpad">>
    /\ Ret(out).top_match[1][1] = "Hackers"
    /\ out.cached = FALSE
    /\ out.invoked = 3

\* what the loop has collected after the call for the club club_name
\* returned x: a result goes with its club name after those before it, an
\* absent result nowhere
Collected(prior, club_name, x) ==
    IF x # NoneV THEN Append(prior, <<club_name, x[1]>>) ELSE prior

\* ret is the comparison of the pairs of final: it holds them all, counts
\* them and gives the mean of their scores
Summarises(final, ret) ==
    /\ ret.total_analyzed = Len(final)
    /\ StablyRanked(final, ret.analyses)
    /\ Len(final) > 0
       => ret.average_score.num * Len(final) =
            SumSeq([i \in 1..Len(final) |-> final[i][2].match_score])
              * ret.average_score.den

\* the step of the loop in which the call for the first club still to do
\* returns x: the loop goes on with the next club, or ends and returns
LoopStep(x) ==
    LET final == Collected(proc[1].results,
                           ClubName(Head(proc[1].todo)), x)
    IN  IF Tail(proc[1].todo) = <<>>
        THEN /\ proc'[1].pc = "idle"
             /\ out'.op = "analyze_many"
             /\ ~out'.exc
             /\ Summarises(final, Ret(out'))
        ELSE /\ proc'[1].pc = "many"
             /\ proc'[1].todo = Tail(proc[1].todo)
             /\ proc'[1].results = final
             /\ out' = out

\* C13: analyze_many calls analyze once for each club record, one after the
\* other in input order, collects every result that is not absent with its
\* club name, and returns a count equal to the number of those results and
\* an average_score equal to the mean of their match_score; a club whose
\* analyze returned absent adds to neither.
C13_OncePerClubMeanOfResults ==
    [][/\ \A clubs_data \in ClubLists, force_refresh \in BOOLEAN :
            (AnalyzeMany(1, "r1", clubs_data, force_refresh)
             /\ clubs_data # <<>>)
            => /\ proc'[1].pc = "many"
               /\ proc'[1].todo = clubs_data
               /\ proc'[1].results = <<>>
               /\ proc'[1].invoked = 0
       /\ \A err \in ReadErrs :
            ManyEntry(1, err)
            => LET fresh == FreshRecords(proc[1].resume_id,
                                         ClubName(Head(proc[1].todo)))
               IN  IF /\ ~proc[1].force_refresh
                      /\ ~Raises(err, "find")
                      /\ fresh # {}
                   THEN \E doc \in fresh : LoopStep(Some(CachedResult(doc)))
                   ELSE IF ~(api_key /\ client)
                   THEN LoopStep(NoneV)
                   ELSE /\ proc'[1].pc = "many_llm"
                        /\ proc'[1].todo = proc[1].todo
                        /\ proc'[1].results = proc[1].results
                        /\ proc'[1].invoked = proc[1].invoked
       /\ \A script \in Scripts, err \in SaveErrs :
            ManyFinish(1, script, err)
            => /\ LoopStep(
                    Some(llm_analyze_resume_for_club(TRUE, script).result))
               /\ proc'[1].pc = "many"
                  => proc'[1].invoked = proc[1].invoked + 1]_vars

\* without a configured adapter a comparison has returned one result, of
\* the one club that has a fresh record, with that record's score as the mean
C13_Witness ==
    /\ out.op = "analyze_many"
    /\ ~(api_key /\ client)
    /\ Cardinality(collection) = 1
    /\ Ret(out).total_analyzed = 1
    /\ Ret(out).average_score = [num |-> 95, den |-> 1]
    /\ Ret(out).analyses[1][1] = "Launchpad"
    /\ out.invoked = 0

\* the comparison of no results
NoResults(ret) ==
    ret = [analyses |-> <<>>, top_match |-> NoneV,
           average_score |-> [num |-> 0, den |-> 1], total_analyzed |-> 0]

\* C14: when no club succeeds, and so for an empty club list, analyze_many
\* returns ranked_results = [], best_match absent, average_score = 0 and
\* count = 0; for an empty list it does not invoke the LLM; it does not
\* divide by zero.
C14_NoClubSucceeds ==
    [][/\ \A force_refresh \in BOOLEAN :
            AnalyzeMany(1, "r1", <<>>, force_refresh)
            => /\ out'.op = "analyze_many"
               /\ ~out'.exc
               /\ NoResults(Ret(out'))
               /\ out'.invoked = 0
               /\ out'.attempts = 0
               /\ proc'[1].pc = "idle"
               /\ collection' = collection
       /\ \A err \in ReadErrs :
            (/\ ManyEntry(1, err)
             /\ proc[1].results = <<>>
             /\ Tail(proc[1].todo) = <<>>
             /\ ~(api_key /\ client)
             /\ \/ proc[1].force_refresh
                \/ Raises(err, "find")
                \/ FreshRecords(proc[1].resume_id,
                                ClubName(Head(proc[1].todo))) = {})
            => /\ out'.op = "analyze_many"
               /\ ~out'.exc
               /\ NoResults(Ret(out'))
               /\ out'.invoked = 0]_vars

\* with a configured adapter, where every club analysed gives a result, a
\* comparison has returned no results: that of the empty list
C14_Witness ==
    /\ out.op = "analyze_many"
    /\ api_key /\ client /\ connected
    /\ NoResults(Ret(out))
    /\ out.invoked = 0
    /\ collection # {}

\* C15: cleanup(days_old) removes exactly the records whose
\* analysis_timestamp is strictly older than now - days_old days and retains
\* every record exactly days_old days old or newer; it returns the number of
\* records removed.
C15_RemovesStrictlyOlder ==
    [][\A days_old \in DaysOld :
         CleanupOldAnalyses(days_old, "none") /\ connected
         => LET cutoff_date == now - days_old * hours_per_day
            IN  /\ collection' = {doc \in collection :
                                    doc.analysis_timestamp >= cutoff_date}
                /\ ~out'.exc
                /\ Ret(out') = Cardinality(collection \ collection')]_vars

\* the text handed to json.loads is no JSON
NotJson(response) ==
    response # NoneV /\ JsonLoads(Unfence(Strip(response[1]))).exc

\* the text decodes to a value that is not of the shape asked of the model
\* (an object of five arrays of strings, an integer and a string): no object,
\* a score that is no number, a string in the place of an array
WrongShape(response) ==
    /\ response # NoneV
    /\ LET body == Strip(Unfence(Strip(response[1])))
       IN  /\ Len(body) = 1
           /\ body[1] \in {"ARR", "OBJ_BADSCORE", "OBJ_BADLIST"}

\* the fallback the claim describes: score 0, a placeholder in each list
Placeholders(result) ==
    /\ result.match_score = 0
    /\ \A f \in ListFields :
          /\ result[f] # <<>>
          /\ \A i \in DOMAIN result[f] : result[f][i] # ""

\* C16: parse never raises: for every raw text that is not valid JSON, and
\* for decoded values of the wrong shape, it returns a fallback
\* AnalysisResult with match_score 0 and a non-empty placeholder string in
\* every one of the five list fields.
C16_ParseFallsBack ==
    [][ParseLlmResponse(1)
       => /\ ~out'.exc
          /\ (NotJson(Ret(out)) \/ WrongShape(Ret(out)))
             => Placeholders(Ret(out'))]_vars

\* C17: round trip: after a successful save(resume_id, club_name, result),
\* get(resume_id, club_name) returns a record whose seven result fields equal
\* those of result; get for a key that was never saved, or was deleted,
\* returns absent.  A record is in the store only from a save of its key on,
\* and until a delete.
C17_RoundTrip ==
    [][/\ \A resume_id \in Resumes, club_name \in ClubNames,
            analysis_result \in Payloads, err \in SaveErrs :
            (/\ SaveAnalysis(resume_id, club_name, analysis_result, err)
             /\ Ret(out') # NoneV)
            => LET got == get_analysis(collection', resume_id, club_name,
                                       "none")
               IN  /\ connected
                   /\ ~got.exc
                   /\ got.ret # NoneV
                   /\ got.ret[1].resume_id = resume_id
                   /\ got.ret[1].club_name = club_name
                   /\ SameFields(analysis_result, got.ret[1])
       /\ \A resume_id \in Resumes, club_name \in ClubNames, err \in ReadErrs :
            GetAnalysis(resume_id, club_name, err)
            => /\ ~out'.exc
               /\ collection' = collection
               /\ Matching(collection, resume_id, club_name) = {}
                  => Ret(out') = NoneV
               /\ (Matching(collection, resume_id, club_name) # {}
                   /\ ~Raises(err, "find"))
                  => /\ Ret(out') # NoneV
                     /\ Ret(out')[1] \in
                          Matching(collection, resume_id, club_name)
       /\ \A resume_id \in Resumes, club_name \in ClubNames :
            (/\ Matching(collection, resume_id, club_name) = {}
             /\ Matching(collection', resume_id, club_name) # {})
            => \E analysis_result \in Payloads, err \in SaveErrs :
                  SaveAnalysis(resume_id, club_name, analysis_result, err)
       /\ \A resume_id \in Resumes, err \in DeleteErrs :
            (DeleteAnalysesForResume(resume_id, err) /\ Ret(out') = TRUE)
            => \A club_name \in ClubNames :
                  get_analysis(collection', resume_id, club_name,
                               "none").ret = NoneV
       /\ \A analysis_id \in Ids, err \in DeleteErrs :
            (DeleteAnalysis(analysis_id, err) /\ Ret(out') = TRUE)
            => \A doc \in collection :
                  doc._id = analysis_id
                  => get_analysis(collection', doc.resume_id, doc.club_name,
                                  "none").ret = NoneV]_vars

\* a get has returned the record of one club while the resume has a record
\* of another club with other field values
C17_Witness ==
    /\ out.op = "get_analysis"
    /\ ~out.failed
    /\ Ret(out) # NoneV
    /\ SameFields(ResultB, Ret(out)[1])
    /\ \E doc \in collection :
          /\ doc.resume_id = Ret(out)[1].resume_id
          /\ doc.club_name # Ret(out)[1].club_name
          /\ SameFields(ResultA, doc)

\* C18: delete_for_resume(resume_id) removes every record whose resume_id
\* matches and no record of any other resume, returns true iff at least one
\* record was removed, and a subsequent list_for_resume(resume_id) returns
\* an empty sequence.
C18_DeleteForResume ==
    [][\A resume_id \in Resumes, err \in DeleteErrs :
         DeleteAnalysesForResume(resume_id, err)
         => /\ ~out'.exc
            /\ collection' \subseteq collection
            /\ {doc \in collection' : doc.resume_id # resume_id}
                 = {doc \in collection : doc.resume_id # resume_id}
            /\ Ret(out') = (collection' # collection)
            /\ ~Raises(err, "delete")
               => /\ {doc \in collection' : doc.resume_id = resume_id} = {}
                  /\ \A o \in get_analyses_for_resume(collection', resume_id,
                                                        "none") :
                        ~o.exc /\ o.ret = <<>>]_vars

\* a delete for a resume has removed its records and left the record of
\* the other resume
C18_Witness ==
    /\ out.op = "delete_analyses_for_resume"
    /\ ~out.failed
    /\ Ret(out) = TRUE
    /\ next_id > MaxIds
    /\ Cardinality(collection) = 1
    /\ Cardinality({doc.resume_id : doc \in collection}) = 1

\* q lists each record of docs once, newest first
NewestFirst(q, docs) ==
    /\ {q[i] : i \in DOMAIN q} = docs
    /\ Len(q) = Cardinality(docs)
    /\ \A i \in 1..(Len(q) - 1) :
          q[i].analysis_timestamp >= q[i + 1].analysis_timestamp

\* C19: list_for_resume(resume_id) returns exactly the stored records whose
\* resume_id matches (none of another resume, none missing), ordered by
\* analysis_timestamp descending (newest first).
C19_ListForResume ==
    [][\A resume_id \in Resumes, err \in ReadErrs :
         GetAnalysesForResume(resume_id, err)
         => /\ ~out'.exc
            /\ collection' = collection
            /\ Raises(err, "find") => Ret(out') = <<>>
            /\ ~Raises(err, "find")
               => NewestFirst(Ret(out'),
                              {doc \in collection :
                                  doc.resume_id = resume_id})]_vars

\* a listing has returned two records of different age
C19_Witness ==
    /\ out.op = "get_analyses_for_resume"
    /\ ~out.failed
    /\ Len(Ret(out)) = 2
    /\ Ret(out)[1].analysis_timestamp > Ret(out)[2].analysis_timestamp

\* C20: for every limit >= 0, list_recent(limit) returns the newest records
\* across all resumes in descending analysis_timestamp order, truncated to
\* limit: the result has exactly min(limit, total record count) elements.
C20_ListRecentTruncates ==
    [][\A limit \in Limits, err \in ReadErrs :
         (GetRecentAnalyses(limit, err) /\ ~Raises(err, "find"))
         => LET q == Ret(out')
                returned == {q[i] : i \in DOMAIN q}
            IN  /\ ~out'.exc
                /\ collection' = collection
                /\ Len(q) = Min(limit, Cardinality(collection))
                /\ NewestFirst(q, returned)
                /\ returned \subseteq collection
                /\ \A doc \in collection \ returned, e \in returned :
                      e.analysis_timestamp >= doc.analysis_timestamp]_vars

\* C21: summary_for_resume(resume_id) is computed over all persisted records
\* of the resume regardless of age and returns count (the number of
\* records), average_score (their mean match_score), top_club and top_score
\* (from the record with the maximum match_score; on ties the first one in
\* the order the store lists them, newest first) and last_updated (the
\* greatest analysis_timestamp).
C21_SummaryOverAllRecords ==
    [][\A resume_id \in Resumes, err \in ReadErrs :
         (GetResumeAnalysisSummary(resume_id, err) /\ ~Raises(err, "find"))
         => LET docs == {doc \in collection : doc.resume_id = resume_id}
                summary == Ret(out')
            IN  /\ ~out'.exc
                /\ collection' = collection
                /\ summary.count = Cardinality(docs)
                /\ docs = {}
                   => summary = [count |-> 0, average_score |-> Zero,
                                 top_club |-> NoneV]
                /\ docs # {}
                   => /\ summary.average_score
                           = Rat(SumScores(docs), Cardinality(docs))
                      /\ \E top \in docs :
                           /\ summary.top_club = Some(top.club_name)
                           /\ summary.top_score = top.match_score
                           /\ \A doc \in docs :
                                 \/ doc.match_score < top.match_score
                                 \/ /\ doc.match_score = top.match_score
                                    /\ doc.analysis_timestamp
                                         <= top.analysis_timestamp
                      /\ \E doc \in docs :
                           summary.last_updated = doc.analysis_timestamp
                      /\ \A doc \in docs :
                           summary.last_updated >= doc.analysis_timestamp]_vars

\* a summary of two records of equal score, one of them older than the
\* cache window: both are counted and the newer one is the top
C21_Witness ==
    /\ out.op = "get_resume_analysis_summary"
    /\ ~out.failed
    /\ Ret(out).count = 2
    /\ Ret(out).average_score = Rat(140, 2)
    /\ Ret(out).top_score = 70
    /\ Ret(out).last_updated = 25
    /\ \E doc \in collection :
          /\ now - doc.analysis_timestamp > cache_duration
          /\ doc.match_score = 70
          /\ Some(doc.club_name) # Ret(out).top_club

C23_LaterWriteWins ==
    [][\A p \in Procs, script \in {OkA, RetryB} :
         AnalyzeFinish(p, script, "none")
         => LET resume_id == proc[p].resume_id
                club_name == ClubName(proc[p].club_data)
                written == parse_llm_response(script.response)
                pair == Matching(collection', resume_id, club_name)
            IN  /\ Cardinality(pair) = 1
                /\ \A doc \in pair :
                      /\ SameFields(written, doc)
                      /\ doc.analysis_timestamp = now
                /\ Cardinality(collection') =
                      Cardinality(collection \ Matching(collection, resume_id,
                                                        club_name)) + 1
                /\ collection \ Matching(collection, resume_id, club_name)
                      \subseteq collection'
                /\ Ret(out') = Some(written)
                /\ out'.invoked = 1]_vars

\* both requests have missed the cache for the same pair; one has invoked
\* the LLM and written its result, the other, past its cache check, is
\* about to write over a record that is fresh
C23_Witness ==
    /\ proc[1].pc = "idle"
    /\ proc[2].pc = "llm"
    /\ ~proc[2].force_refresh
    /\ out.op = "analyze"
    /\ out.invoked = 1
    /\ ~out.cached
    /\ Ret(out) = Some(ResultA)
    /\ \E doc \in Matching(collection, proc[2].resume_id,
                            ClubName(proc[2].club_data)) :
          /\ SameFields(ResultA, doc)
          /\ doc.analysis_timestamp = now
          /\ CacheValid(doc, now)

\* C24: when the LLM call fails after all adapter retries, analyze returns a
\* fallback AnalysisResult with match_score 0 and persists it under
\* (resume_id, club_name) (the store's write not failing); a subsequent
\* analyze for the same pair with force_refresh = false within 24 hours
\* returns that fallback result without invoking the LLM again.
C24_FailureIsCached ==
    [][/\ \A script \in Scripts, err \in SaveErrs :
            (AnalyzeFinish(1, script, err) /\ call_llm(script).exc)
            => LET club_name == ClubName(proc[1].club_data)
                   stored == Matching(collection', proc[1].resume_id,
                                      club_name)
               IN  /\ ~out'.exc
                   /\ Ret(out') = Some(FailedFallback)
                   /\ Ret(out')[1].match_score = 0
                   /\ out'.attempts = max_attempts
                   /\ ~SaveFails(collection, proc[1].resume_id, club_name,
                                 err)
                      => /\ Cardinality(stored) = 1
                         /\ \A doc \in stored :
                               /\ SameFields(FailedFallback, doc)
                               /\ doc.analysis_timestamp = now
       /\ \A resume_id \in Resumes, club_data \in Clubs :
            (/\ Analyze(1, resume_id, club_data, FALSE, "none")
             /\ \E doc \in FreshRecords(resume_id, ClubName(club_data)) :
                   SameFields(FailedFallback, doc))
            => /\ ~out'.exc
               /\ Ret(out') = Some(FailedFallback)
               /\ out'.cached
               /\ out'.invoked = 0
               /\ out'.attempts = 0
               /\ collection' = collection
               /\ proc'[1].pc = "idle"]_vars

\* the fallback of a failed LLM call, stored 23 hours before, has been
\* returned from the cache
C24_Witness ==
    /\ out.op = "analyze"
    /\ out.cached
    /\ out.invoked = 0
    /\ Ret(out) = Some(FailedFallback)
    /\ \E doc \in collection :
          /\ SameFields(FailedFallback, doc)
          /\ now - doc.analysis_timestamp = 23

\* C25: the cache check precedes the configuration check: when the LLM
\* adapter is not configured, force_refresh = false and a record younger
\* than 24 hours exists for the pair, analyze returns the cached result (not
\* absent) and reports no configuration error.
C25_CacheBeforeConfiguration ==
    [][\A resume_id \in Resumes, club_data \in Clubs :
         (/\ Analyze(1, resume_id, club_data, FALSE, "none")
          /\ ~is_configured(api_key, client)
          /\ FreshRecords(resume_id, ClubName(club_data)) # {})
         => /\ out'.op = "analyze"
            /\ ~out'.exc
            /\ ~out'.failed
            /\ out'.cached
            /\ Ret(out') # NoneV
            /\ \E doc \in FreshRecords(resume_id, ClubName(club_data)) :
                  Ret(out') = Some(CachedResult(doc))
            /\ out'.invoked = 0
            /\ collection' = collection
            /\ proc'[1].pc = "idle"]_vars

\* an adapter that is not configured, and a call served from the cache
C25_Witness ==
    /\ ~is_configured(api_key, client)
    /\ out.op = "analyze"
    /\ out.cached
    /\ ~out.failed
    /\ \E doc \in collection :
          /\ Ret(out) = Some(CachedResult(doc))
          /\ now - doc.analysis_timestamp < cache_duration

\* the records of coll that are not under the key (resume_id, club_name)
OtherKeys(coll, resume_id, club_name) ==
    {doc \in coll : doc.resume_id # resume_id \/ doc.club_name # club_name}

\* every key and record id of before is still there
NothingRemoved ==
    \A doc \in collection :
        \E kept \in collection' :
            /\ kept._id = doc._id
            /\ kept.resume_id = doc.resume_id
            /\ kept.club_name = doc.club_name

\* C26: analyze(resume_id, club) modifies at most the single record keyed
\* (resume_id, club_name): after any analyze call, every record with a
\* different key is unchanged, and analyze never removes a record.
C26_AnalyzeTouchesOneKey ==
    [][/\ \A resume_id \in Resumes, club_data \in Clubs,
            force_refresh \in BOOLEAN, err \in ReadErrs :
            Analyze(1, resume_id, club_data, force_refresh, err)
            => collection' = collection
       /\ \A script \in Scripts, err \in SaveErrs :
            AnalyzeFinish(1, script, err)
            => LET resume_id == proc[1].resume_id
                   club_name == ClubName(proc[1].club_data)
               IN  /\ OtherKeys(collection', resume_id, club_name)
                        = OtherKeys(collection, resume_id, club_name)
                   /\ Cardinality(collection' \ collection) <= 1
                   /\ NothingRemoved]_vars

\* an analyze has written the record of one club beside the record of
\* another club of the same resume, which is as it was written before
C26_Witness ==
    /\ out.op = "analyze"
    /\ out.invoked = 1
    /\ ~out.failed
    /\ \E doc \in collection, other \in collection :
          /\ Ret(out) = Some(CachedResult(doc))
          /\ doc.analysis_timestamp = now
          /\ other.resume_id = doc.resume_id
          /\ other.club_name # doc.club_name
          /\ other.analysis_timestamp < now
          /\ SameFields(ResultB, other)
          /\ ~SameFields(ResultB, doc)

\* C27: the record identity is stable across upserts: for an existing
\* (resume_id, club_name) key, every later successful save returns the same
\* record_id as the first save, so delete(record_id) with the id from the
\* first save still removes the record after any number of overwrites.
C27_StableRecordId ==
    [][/\ \A resume_id \in Resumes, club_name \in ClubNames,
            analysis_result \in Payloads, err \in SaveErrs :
            (/\ SaveAnalysis(resume_id, club_name, analysis_result, err)
             /\ Ret(out') # NoneV)
            => LET before == {doc \in collection :
                                 /\ doc.resume_id = resume_id
                                 /\ doc.club_name = club_name}
                   after == {doc \in collection' :
                                /\ doc.resume_id = resume_id
                                /\ doc.club_name = club_name}
                   record_id == Ret(out')[1]
                   deleted == delete_analysis(collection', record_id, "none")
               IN  /\ \A doc \in before : doc._id = record_id
                   /\ \A doc \in after : doc._id = record_id
                   /\ after # {}
                   /\ connected
                   /\ deleted.ret = TRUE
                   /\ deleted.coll = collection' \ after
       /\ \A resume_id \in Resumes, club_name \in ClubNames,
            analysis_result \in Payloads, err \in SaveErrs :
            SaveAnalysis(resume_id, club_name, analysis_result, err)
            => \A doc \in collection :
                  \E kept \in collection' :
                     /\ kept._id = doc._id
                     /\ kept.resume_id = doc.resume_id
                     /\ kept.club_name = doc.club_name
       /\ \A analysis_id \in Ids, err \in DeleteErrs :
            (DeleteAnalysis(analysis_id, err) /\ ~Raises(err, "delete"))
            => /\ collection' = {doc \in collection : doc._id # analysis_id}
               /\ Ret(out') = (collection' # collection)]_vars

\* a save has overwritten the first record of the store, after the second
\* was written, and has returned the first record's id
C27_Witness ==
    /\ out.op = "save_analysis"
    /\ ~out.failed
    /\ Ret(out) = Some(1)
    /\ now = 25
    /\ \E doc \in collection, other \in collection :
          /\ doc._id = 1
          /\ doc.analysis_timestamp = 25
          /\ other._id = 2
          /\ other.analysis_timestamp = 0

\* C28: deleting a resume does not cascade: delete_resume removes only the
\* resume document and leaves every analysis record of that resume
\* unchanged in the analysis store, so records whose resume_id refers to no
\* existing resume are reachable.
C28_DeleteResumeDoesNotCascade ==
    [][\A resume_id \in Resumes, err \in DeleteErrs :
         DeleteResume(resume_id, err)
         => /\ collection' = collection
            /\ ~out'.exc
            /\ Raises(err, "delete")
               => /\ resume_collection' = resume_collection
                  /\ Ret(out') = FALSE
            /\ ~Raises(err, "delete")
               => /\ resume_collection' = resume_collection \ {resume_id}
                  /\ Ret(out') = (resume_id \in resume_collection)]_vars

\* a resume has been deleted and an analysis record of it is still stored
C28_Witness ==
    /\ out.op = "delete_resume"
    /\ ~out.failed
    /\ Ret(out) = TRUE
    /\ \E doc \in collection : doc.resume_id \notin resume_collection

\* the club names of the pairs of results
NamesOf(results) == {results[i][1] : i \in DOMAIN results}

\* C29: in analyze_many with force_refresh = false, a configured adapter and
\* a working store, the LLM is invoked at most once per distinct club name
\* in the input list: a later list entry with a club name already analysed
\* in the same call is served from the record just written, while
\* ranked_results still contains one entry per list element.
C29_OncePerClubName ==
    [][/\ (/\ ManyEntry(1, "none")
           /\ ClubName(Head(proc[1].todo)) \in NamesOf(proc[1].results))
          => LET club_name == ClubName(Head(proc[1].todo))
                 stored == Matching(collection, proc[1].resume_id, club_name)
             IN  /\ collection' = collection
                 /\ Cardinality(stored) = 1
                 /\ \A doc \in stored :
                       /\ doc.analysis_timestamp = now
                       /\ IF Tail(proc[1].todo) = <<>>
                          THEN /\ proc'[1].pc = "idle"
                               /\ out'.invoked = proc[1].invoked
                               /\ \E i \in DOMAIN Ret(out').analyses :
                                     Ret(out').analyses[i]
                                       = <<club_name, CachedResult(doc)>>
                          ELSE /\ proc'[1].pc = "many"
                               /\ proc'[1].invoked = proc[1].invoked
                               /\ proc'[1].results =
                                    Append(proc[1].results,
                                           <<club_name, CachedResult(doc)>>)
       /\ (proc[1].pc \in {"many", "many_llm"} /\ proc'[1].pc # "idle")
          => /\ proc'[1].invoked
                  <= Cardinality(NamesOf(proc'[1].results))
             /\ Len(proc'[1].results) + Len(proc'[1].todo)
                  = Len(proc[1].results) + Len(proc[1].todo)
       /\ (proc[1].pc \in {"many", "many_llm"} /\ proc'[1].pc = "idle")
          => /\ out'.op = "analyze_many"
             /\ ~out'.exc
             /\ out'.invoked
                  <= Cardinality(NamesOf(Ret(out').analyses))
             /\ Len(Ret(out').analyses) = Len(proc[1].results) + 1
             /\ Len(proc[1].todo) = 1
       /\ \A clubs_data \in DupLists :
            (AnalyzeMany(1, "r1", clubs_data, FALSE) /\ clubs_data # <<>>)
            => /\ proc'[1].todo = clubs_data
               /\ proc'[1].results = <<>>
               /\ proc'[1].invoked = 0]_vars

\* a comparison of three list entries with two club names has invoked the
\* LLM twice and returned three results
C29_Witness ==
    /\ out.op = "analyze_many"
    /\ ~out.exc
    /\ out.invoked = 2
    /\ Len(Ret(out).analyses) = 3
    /\ Cardinality(NamesOf(Ret(out).analyses)) = 2
    /\ Cardinality(collection) = 2

\* C30: every club record lacking a Club Name attribute is cached under the
\* key (resume_id, "Unknown Club"): for two different nameless club records
\* and the same resume, the second analyze with force_refresh = false
\* within 24 hours returns the result computed for the first club without
\* invoking the LLM, and the store holds one record for both.
C30_NamelessClubsShareAKey ==
    /\ [](Cardinality({doc \in collection :
                          /\ doc.resume_id = "r1"
                          /\ doc.club_name = "Unknown Club"}) <= 1)
    /\ [][/\ \A club_data \in NamelessClubs :
              (/\ Analyze(1, "r1", club_data, FALSE, "none")
               /\ \E doc \in collection :
                     /\ doc.resume_id = "r1"
                     /\ doc.club_name = "Unknown Club"
                     /\ now - doc.analysis_timestamp < cache_duration)
              => /\ out'.op = "analyze"
                 /\ out'.cached
                 /\ out'.invoked = 0
                 /\ out'.attempts = 0
                 /\ collection' = collection
                 /\ \E doc \in collection :
                       /\ doc.club_name = "Unknown Club"
                       /\ Ret(out') = Some(CachedResult(doc))
          /\ (/\ proc[1].pc = "llm"
              /\ proc[1].club_data \in NamelessClubs
              /\ AnalyzeFinish(1, ScriptFor(proc[1].club_data), "none"))
             => /\ \E doc \in collection' :
                      /\ doc.resume_id = "r1"
                      /\ doc.club_name = "Unknown Club"
                      /\ doc.analysis_timestamp = now
                      /\ Ret(out') = Some(CachedResult(doc))
                /\ {doc \in collection' : doc.club_name # "Unknown Club"}
                     = {doc \in collection : doc.club_name # "Unknown Club"}
          /\ (/\ ManyEntry(1, "none")
              /\ Len(proc[1].results) = 1
              /\ Len(proc[1].todo) = 1
              /\ \E doc \in collection :
                    /\ doc.resume_id = "r1"
                    /\ doc.club_name = "Unknown Club"
                    /\ now - doc.analysis_timestamp < cache_duration)
             => /\ collection' = collection
                /\ proc'[1].pc = "idle"
                /\ out'.invoked = proc[1].invoked
                /\ Ret(out').analyses
                     = <<proc[1].results[1], proc[1].results[1]>>
                /\ proc[1].results[1][1] = "Unknown Club"]_vars

\* a comparison of the chess club and then the robotics club, both
\* nameless, has invoked the LLM once and returned the chess club's result
\* for both; the store holds one record
C30_Witness ==
    /\ out.op = "analyze_many"
    /\ out.invoked = 1
    /\ Ret(out).analyses = << <<"Unknown Club", ResultB>>,
                              <<"Unknown Club", ResultB>> >>
    /\ Cardinality(collection) = 1
    /\ \A doc \in collection :
          doc.club_name = "Unknown Club" /\ SameFields(ResultB, doc)

====
